---------------------------- MODULE Spec2Model ----------------------------
(***************************************************************************)
(* A model of nesmesis: the 6502 register file (src/src/cpu/reg.rs), the   *)
(* CPU core (src/src/cpu/mod.rs), the NROM mapper (src/src/cart/nrom.rs)   *)
(* and the bus the test driver attaches the CPU to                         *)
(* (src/tests/cpu_simple.rs, TestMemory).                                  *)
(*                                                                         *)
(* Handlers are translated as operators over a machine record `s` that is  *)
(* threaded through the calls the handler makes, in the order the code     *)
(* makes them.  s.ev is the sequence of bus events of the call in          *)
(* progress, s.ret the value the last callee returned, s.fault whether a   *)
(* panic has unwound the call.                                             *)
(***************************************************************************)
EXTENDS Integers, Sequences, FiniteSets, TLC

VARIABLES
    reg,      \* Registers: [a, x, y, p, sp, pc]
    nmi,      \* CPU.nmi
    ram,      \* TestMemory.ram: cells written so far (every other cell is 0)
    rom,      \* TestMemory.rom: the NROM mapper
    checked,  \* the build traps integer overflow (debug) or wraps (release)
    fault,    \* a panic has ended the program
    trace,    \* bus events of the last call, in order
    prev,     \* kind of the last bus event before that call ("none" if none)
    last,     \* the last call the driver made, with the registers before it
    wlog,     \* addresses written on the bus since the driver started
    budget    \* calls the driver still makes

vars == <<reg, nmi, ram, rom, checked, fault, trace, prev, last, wlog, budget>>

Byte == 0..255

----------------------------------------------------------------------------
\* Bit operations on non-negative integers.

RECURSIVE BitAnd(_, _)
BitAnd(a, b) ==
    IF a = 0 \/ b = 0 THEN 0
    ELSE (a % 2) * (b % 2) + 2 * BitAnd(a \div 2, b \div 2)

RECURSIVE BitOr(_, _)
BitOr(a, b) ==
    IF a = 0 THEN b
    ELSE IF b = 0 THEN a
    ELSE (IF a % 2 = 1 \/ b % 2 = 1 THEN 1 ELSE 0) + 2 * BitOr(a \div 2, b \div 2)

RECURSIVE BitXor(_, _)
BitXor(a, b) ==
    IF a = 0 THEN b
    ELSE IF b = 0 THEN a
    ELSE ((a + b) % 2) + 2 * BitXor(a \div 2, b \div 2)

\* !v on a u8
Not8(v) == 255 - v

\* v << 1 and v >> 1 on a u8
Shl8(v) == (v * 2) % 256
Shr8(v) == v \div 2

\* wrapping_add / wrapping_sub
WrapAdd8(a, b) == (a + b) % 256
WrapSub8(a, b) == (a - b + 256) % 256
WrapAdd16(a, b) == (a + b) % 65536
WrapSub16(a, b) == (a - b + 65536) % 65536

\* `v as i8` of a u8, `v as i16` of a u16, `v as u16` of an i16
AsI8(v) == IF v >= 128 THEN v - 256 ELSE v
AsI16(v) == IF v >= 32768 THEN v - 65536 ELSE v
AsU16(v) == (v + 65536) % 65536

----------------------------------------------------------------------------
\* src/src/cpu/mod.rs: vectors

NMI_VECTOR == \hFFFA
RESET_VECTOR == \hFFFC
IRQ_VECTOR == \hFFFE

\* src/src/cpu/reg.rs: ProcessorStatus

NEGATIVE == \h80
OVERFLOW == \h40
ALWAYS_ONE == \h20
BREAK == \h10
DECIMAL == \h08
INTERRUPT == \h04
ZERO == \h02
CARRY == \h01

\* Flag -> its ProcessorStatus bit (the pairing of check_flag and update_flag)
FlagBit(f) ==
    CASE f = "Interrupt" -> INTERRUPT
      [] f = "Overflow" -> OVERFLOW
      [] f = "Negative" -> NEGATIVE
      [] f = "Decimal" -> DECIMAL
      [] f = "Carry" -> CARRY
      [] f = "Zero" -> ZERO

\* ProcessorStatus::insert / remove / contains on the bits of P
PInsert(p, bit) == BitOr(p, bit)
PRemove(p, bit) == BitAnd(p, 255 - bit)
PContains(p, bit) == BitAnd(p, bit) = bit

\* Registers::new
RegistersNew == [a |-> 0, x |-> 0, y |-> 0, p |-> 0, sp |-> 0, pc |-> 0]

\* Registers::update_zn on the register record
RegUpdateZn(r, v) ==
    LET p1 == IF v = 0 THEN PInsert(r.p, ZERO) ELSE PRemove(r.p, ZERO)
        p2 == IF BitAnd(v, \h80) = \h80 THEN PInsert(p1, NEGATIVE)
              ELSE PRemove(p1, NEGATIVE)
    IN  [r EXCEPT !.p = p2]

\* The value Registers::write stores in P
PMaskAlt(v) == BitOr(BitAnd(v, \hCF), \h30)
PMask(v) == BitOr(BitAnd(v, \hCF), \h20)

\* Registers::write
RegWriteXNoZn(r, which, v) ==
    CASE which = "a" -> [RegUpdateZn(r, v) EXCEPT !.a = v]
      [] which = "x" -> [r EXCEPT !.x = v]
      [] which = "y" -> [RegUpdateZn(r, v) EXCEPT !.y = v]
      [] which = "p" -> [r EXCEPT !.p = PMask(v)]
      [] which = "sp" -> [r EXCEPT !.sp = v]
RegWrite(r, which, v) ==
    CASE which = "a" -> [RegUpdateZn(r, v) EXCEPT !.a = v]
      [] which = "x" -> [RegUpdateZn(r, v) EXCEPT !.x = v]
      [] which = "y" -> [RegUpdateZn(r, v) EXCEPT !.y = v]
      [] which = "p" -> [r EXCEPT !.p = PMask(v)]
      [] which = "sp" -> [r EXCEPT !.sp = v]

\* Registers::read
RegRead(r, which) == r[which]

\* Registers::check_flag
RegCheckFlag(r, f) == PContains(r.p, FlagBit(f))

\* Registers::update_flag
RegUpdateFlag(r, f, on) ==
    [r EXCEPT !.p = IF on THEN PInsert(@, FlagBit(f)) ELSE PRemove(@, FlagBit(f))]

\* Registers::update_cv; x, y are u8 and res is the u16 sum
RegUpdateCv(r, x, y, res) ==
    LET p1 == IF res > \hFF THEN PInsert(r.p, CARRY) ELSE PRemove(r.p, CARRY)
        ov == BitAnd(BitAnd(Not8(BitXor(x, y)), BitXor(x, res)), \h80) # 0
        p2 == IF ov THEN PInsert(p1, OVERFLOW) ELSE PRemove(p1, OVERFLOW)
    IN  [r EXCEPT !.p = p2]

----------------------------------------------------------------------------
\* src/src/cart/nrom.rs

PRG_ROM_PAGE_SIZE == 16384
CHR_ROM_PAGE_SIZE == 8192
PRG_RAM_PAGE_SIZE == 8192

\* The iNES body: the byte at file offset i (i >= 16) of the images the
\* driver loads.  The two 16K PRG pages differ at every offset.
ImageByte(i) == (i * 7 + (i \div 256) * 5 + (i \div 16384) * 3) % 256

\* a * b and a + b in u16: the value, and whether it overflowed
Mul16(a, b) == [v |-> (a * b) % 65536, over |-> a * b > 65535]
Add16(a, b) == [v |-> (a + b) % 65536, over |-> a + b > 65535]

\* NROM::new(d) for an image of d_len bytes whose header bytes 4, 5 and 8 are
\* d4, d5, d8.  ok is FALSE when the constructor panics: on an overflow in a
\* build that traps them, or on a slice that leaves the image or runs
\* backwards.  prg_rom and prg_ram hold the cells written since.
NromNew(d4, d5, d8, d_len, chk) ==
    LET prg_size == Mul16(d4, PRG_ROM_PAGE_SIZE)
        chr_size == Mul16(d5, CHR_ROM_PAGE_SIZE)
        ram_size == IF d8 = 0 THEN [v |-> PRG_RAM_PAGE_SIZE, over |-> FALSE]
                    ELSE Mul16(d8, PRG_RAM_PAGE_SIZE)
        prg_end == Add16(16, prg_size.v)
        chr_end == Add16(prg_end.v, chr_size.v)
        over == prg_size.over \/ chr_size.over \/ ram_size.over
                \/ prg_end.over \/ chr_end.over
        slices == /\ 16 <= prg_end.v /\ prg_end.v <= d_len
                  /\ prg_end.v <= chr_end.v /\ chr_end.v <= d_len
    IN  [ok |-> ~(chk /\ over) /\ slices,
         prg_len |-> prg_size.v,
         chr_off |-> prg_end.v,
         chr_len |-> chr_size.v,
         ram_len |-> ram_size.v,
         prg_num |-> d4,
         prg_rom |-> <<>>,
         prg_ram |-> <<>>]

\* prg_rom[i] and prg_ram[i]; ok is FALSE when the index is outside the Vec
PrgRomAt(m, i) ==
    [ok |-> i < m.prg_len,
     v |-> IF i \in DOMAIN m.prg_rom THEN m.prg_rom[i] ELSE ImageByte(16 + i)]

PrgRamAt(m, i) ==
    [ok |-> i < m.ram_len,
     v |-> IF i \in DOMAIN m.prg_ram THEN m.prg_ram[i] ELSE 0]

\* The index NROM uses in 0xC000..=0xFFFF
UpperIndexAlt(m, a) == a % \h8000
UpperIndex(m, a) == IF m.prg_num = 2 THEN a % \h8000 ELSE a % \hC000

\* NROM::cpu_read
NromCpuRead(m, a) ==
    CASE a >= \h6000 /\ a <= \h7FFF -> PrgRamAt(m, a % \h6000)
      [] a >= \h8000 /\ a <= \hBFFF -> PrgRomAt(m, a % \h8000)
      [] a >= \hC000 /\ a <= \hFFFF -> PrgRomAt(m, UpperIndex(m, a))
      [] OTHER -> [ok |-> TRUE, v |-> 0]

\* m.prg_rom[i] = v and m.prg_ram[i] = v
PrgRomSet(m, i, v) ==
    [ok |-> i < m.prg_len,
     m |-> [m EXCEPT !.prg_rom = [j \in DOMAIN @ \cup {i} |-> IF j = i THEN v ELSE @[j]]]]

PrgRamSet(m, i, v) ==
    [ok |-> i < m.ram_len,
     m |-> [m EXCEPT !.prg_ram = [j \in DOMAIN @ \cup {i} |-> IF j = i THEN v ELSE @[j]]]]

\* NROM::cpu_write
NromCpuWrite(m, a, v) ==
    CASE a >= \h6000 /\ a <= \h7FFF -> PrgRamSet(m, a % \h6000, v)
      [] a >= \h8000 /\ a <= \hBFFF -> PrgRomSet(m, a % \h8000, v)
      [] a >= \hC000 /\ a <= \hFFFF -> PrgRomSet(m, UpperIndex(m, a), v)
      [] OTHER -> [ok |-> TRUE, m |-> m]

----------------------------------------------------------------------------
\* src/tests/cpu_simple.rs: TestMemory, the MMU the CPU is attached to

RAM_SIZE == \h800

\* impl MMU for TestMemory: read
MmuRead(mem, m, a) ==
    IF a <= \h1FFF
    THEN [ok |-> TRUE, v |-> IF a % RAM_SIZE \in DOMAIN mem THEN mem[a % RAM_SIZE] ELSE 0]
    ELSE NromCpuRead(m, a)

\* impl MMU for TestMemory: write
MmuWrite(mem, m, a, v) ==
    IF a <= \h1FFF
    THEN [ok |-> TRUE,
          ram |-> [j \in DOMAIN mem \cup {a % RAM_SIZE} |->
                      IF j = a % RAM_SIZE THEN v ELSE mem[j]],
          rom |-> m]
    ELSE LET w == NromCpuWrite(m, a, v)
         IN  [ok |-> w.ok, ram |-> mem, rom |-> w.m]

----------------------------------------------------------------------------
\* src/src/cpu/mod.rs: the machine record and the bus

Ev(k, a, v) == [k |-> k, a |-> a, v |-> v]

\* A `let`: With([x \in {e} |-> body]) is body with x bound to the value of e
With(f) == f[CHOOSE x \in DOMAIN f : TRUE]

Panic(s) == [s EXCEPT !.fault = TRUE]
Ret(s, v) == [s EXCEPT !.ret = v]

\* self.reg = r (every register update of a handler goes through here)
Upd(s, r) == IF s.fault THEN s ELSE [s EXCEPT !.reg = r]

\* self.bus.cycle()
Cycle(s) == IF s.fault THEN s ELSE [s EXCEPT !.ev = Append(@, Ev("cycle", 0, 0))]

\* self.bus.read(a)
BusRead(s, a) ==
    IF s.fault THEN s
    ELSE With([r \in {MmuRead(s.ram, s.rom, a)} |->
             IF r.ok
             THEN [s EXCEPT !.ev = Append(@, Ev("read", a, r.v)), !.ret = r.v]
             ELSE [s EXCEPT !.ev = Append(@, Ev("read", a, 0)), !.fault = TRUE]])

\* self.bus.write(a, v)
BusWrite(s, a, v) ==
    IF s.fault THEN s
    ELSE With([w \in {MmuWrite(s.ram, s.rom, a, v)} |->
             IF w.ok
             THEN [s EXCEPT !.ev = Append(@, Ev("write", a, v)),
                            !.ram = w.ram, !.rom = w.rom]
             ELSE [s EXCEPT !.ev = Append(@, Ev("write", a, v)), !.fault = TRUE]])

\* CPU::read
ReadNoCycle(s, a) == BusRead(s, a)
Read(s, a) == BusRead(Cycle(s), a)

\* CPU::write
Write(s, a, v) == BusWrite(Cycle(s), a, v)

\* a + 1 on a u16 address: traps in a checked build
Succ16(s, a) == IF a = \hFFFF /\ s.checked THEN [ok |-> FALSE, v |-> 0]
                ELSE [ok |-> TRUE, v |-> (a + 1) % 65536]

\* CPU::read16
Read16(s, a) ==
    With([s1 \in {Read(s, a)} |->
    With([nx \in {Succ16(s, a)} |->
    With([s2 \in {IF nx.ok THEN Read(s1, nx.v) ELSE Panic(s1)} |->
        Ret(s2, BitOr(s1.ret, s2.ret * 256))])])])

\* CPU::write16
Write16(s, a, v) ==
    With([s1 \in {Write(s, a, v \div 256)} |->
    With([nx \in {Succ16(s, a)} |->
        IF nx.ok THEN Write(s1, nx.v, BitAnd(v, \hFF)) ELSE Panic(s1)])])

\* CPU::cross
Cross(a, b) == BitAnd(WrapAdd16(a, b), \hFF00) # BitAnd(a, \hFF00)

\* CPU::push
PushNoWrap(s, v) ==
    With([sp \in {RegRead(s.reg, "sp")} |->
    With([s1 \in {Write(s, sp + \h100, v)} |->
        Upd(s1, RegWrite(s1.reg, "sp", IF sp = 0 THEN 0 ELSE sp - 1))])])
Push(s, v) ==
    With([sp \in {RegRead(s.reg, "sp")} |->
    With([s1 \in {Write(s, sp + \h100, v)} |->
        Upd(s1, RegWrite(s1.reg, "sp", WrapSub8(sp, 1)))])])

\* CPU::push16
Push16(s, v) == Push(Push(s, v \div 256), BitAnd(v, \hFF))

\* CPU::pop
Pop(s) ==
    With([sp \in {WrapAdd8(RegRead(s.reg, "sp"), 1)} |->
    With([s1 \in {Upd(s, RegWrite(s.reg, "sp", sp))} |->
        Read(s1, sp + \h100)])])

\* CPU::pop16
Pop16(s) ==
    With([s1 \in {Pop(s)} |->
    With([s2 \in {Pop(s1)} |->
        Ret(s2, BitOr(s1.ret, s2.ret * 256))])])

----------------------------------------------------------------------------
\* Addressing modes: each leaves the resolved address in ret

Mode(k, extra) == [k |-> k, extra |-> extra]
NoMode == Mode("None", FALSE)

\* CPU::imm
ImmByTwo(s) ==
    With([p \in {s.reg.pc} |->
        Ret(Upd(s, [s.reg EXCEPT !.pc = WrapAdd16(p, 2)]), p)])
Imm(s) ==
    With([p \in {s.reg.pc} |->
        Ret(Upd(s, [s.reg EXCEPT !.pc = WrapAdd16(p, 1)]), p)])

\* CPU::imm16
Imm16(s) ==
    With([p \in {s.reg.pc} |->
        Ret(Upd(s, [s.reg EXCEPT !.pc = WrapAdd16(p, 2)]), p)])

\* CPU::abs
Abs(s) ==
    With([s1 \in {Imm16(s)} |->
        Read16(s1, s1.ret)])

\* CPU::abi
AbiAnyCross(s, extra, r) ==
    With([s1 \in {Abs(s)} |->
    With([a \in {s1.ret} |->
    With([rv \in {RegRead(s1.reg, r)} |->
    With([s2 \in {IF Cross(a, rv) THEN Cycle(s1) ELSE s1} |->
        Ret(s2, WrapAdd16(a, rv))])])])])
Abi(s, extra, r) ==
    With([s1 \in {Abs(s)} |->
    With([a \in {s1.ret} |->
    With([rv \in {RegRead(s1.reg, r)} |->
    With([s2 \in {IF extra /\ Cross(a, rv) THEN Cycle(s1) ELSE s1} |->
        Ret(s2, WrapAdd16(a, rv))])])])])

\* CPU::zp
Zp(s) ==
    With([s1 \in {Imm(s)} |->
        Read(s1, s1.ret)])

\* CPU::zpi
Zpi(s, r) ==
    With([s1 \in {Zp(s)} |->
    With([s2 \in {Cycle(s1)} |->
        Ret(s2, BitAnd(s1.ret + RegRead(s2.reg, r), \hFF))])])

\* The pointer fetch of izx and izy: same-page wrap at 0xFF
ZpPointerNoWrap(s, zero) == Read16(s, zero)
ZpPointer(s, zero) ==
    IF zero = \hFF
    THEN With([s1 \in {Read(s, \hFF)} |->
         With([s2 \in {Read(s1, \h00)} |->
             Ret(s2, BitOr(s1.ret, s2.ret * 256))])])
    ELSE Read16(s, zero)

\* CPU::izx
Izx(s) ==
    With([s1 \in {Imm(s)} |->
    With([s2 \in {Read(s1, s1.ret)} |->
    With([res \in {WrapAdd8(s2.ret, RegRead(s2.reg, "x"))} |->
    With([s3 \in {Cycle(s2)} |->
        ZpPointer(s3, res)])])])])

\* CPU::izy
Izy(s, extra) ==
    With([s1 \in {Imm(s)} |->
    With([s2 \in {Read(s1, s1.ret)} |->
    With([zero \in {s2.ret} |->
    With([y \in {RegRead(s2.reg, "y")} |->
    With([s3 \in {Cycle(s2)} |->
    With([s4 \in {ZpPointer(s3, zero)} |->
    With([addr \in {s4.ret} |->
    With([s5 \in {IF extra /\ Cross(WrapSub16(addr, y), y) THEN Cycle(s4) ELSE s4} |->
        Ret(s5, WrapAdd16(addr, y))])])])])])])])])

\* CPU::ind
IndNoWrap(s) ==
    With([s1 \in {Imm16(s)} |->
    With([s2 \in {Read16(s1, s1.ret)} |->
        Read16(s2, s2.ret)])])
Ind(s) ==
    With([s1 \in {Imm16(s)} |->
    With([s2 \in {Read16(s1, s1.ret)} |->
    With([addr \in {s2.ret} |->
        IF BitAnd(addr, \hFF) = \hFF
        THEN With([s3 \in {Read(s2, addr)} |->
             With([s4 \in {Read(s3, addr - \hFF)} |->
                 Ret(s4, BitOr(s3.ret, s4.ret * 256))])])
        ELSE Read16(s2, addr)])])])

\* CPU::resolve_addr
ResolveAddr(s, m) ==
    CASE m.k = "Immediate" -> Imm(s)
      [] m.k = "Absolute" -> Abs(s)
      [] m.k = "AbsoluteX" -> Abi(s, m.extra, "x")
      [] m.k = "AbsoluteY" -> Abi(s, m.extra, "y")
      [] m.k = "ZeroPage" -> Zp(s)
      [] m.k = "ZeroPageX" -> Zpi(s, "x")
      [] m.k = "ZeroPageY" -> Zpi(s, "y")
      [] m.k = "Indirect" -> Ind(s)
      [] m.k = "IndirectX" -> Izx(s)
      [] m.k = "IndirectY" -> Izy(s, m.extra)

----------------------------------------------------------------------------
\* Legal instructions

\* 1u16 if the carry flag is set, else 0u16
CarryIn(s) == IF RegCheckFlag(s.reg, "Carry") THEN 1 ELSE 0

\* The tail add, sub, isb and rra share: result = a + b + c in u16,
\* update_cv(a, b, result), write(A, result as u8)
AddToANoCarry(s, a, b, c) ==
    With([result \in {a + b} |->
        Upd(s, RegWrite(RegUpdateCv(s.reg, a, b, result), "a", result % 256))])
AddToA(s, a, b, c) ==
    With([result \in {a + b + c} |->
        Upd(s, RegWrite(RegUpdateCv(s.reg, a, b, result), "a", result % 256))])

\* CPU::load
Load(s, r, m) ==
    With([s1 \in {ResolveAddr(s, m)} |->
    With([s2 \in {Read(s1, s1.ret)} |->
        Upd(s2, RegWrite(s2.reg, r, s2.ret))])])

\* CPU::store
Store(s, r, m) ==
    With([s1 \in {ResolveAddr(s, m)} |->
        Write(s1, s1.ret, RegRead(s1.reg, r))])

\* CPU::transfer
Transfer(s, from, to) == Upd(s, RegWrite(s.reg, to, RegRead(s.reg, from)))

\* CPU::add
Add(s, m) ==
    With([s1 \in {ResolveAddr(s, m)} |->
    With([a \in {RegRead(s1.reg, "a")} |->
    With([s2 \in {Read(s1, s1.ret)} |->
        AddToA(s2, a, s2.ret, CarryIn(s2))])])])

\* CPU::dec_m
DecM(s, m) ==
    With([s1 \in {ResolveAddr(s, m)} |->
    With([addr \in {s1.ret} |->
    With([s2 \in {Read(s1, addr)} |->
    With([value \in {WrapSub8(s2.ret, 1)} |->
    With([s3 \in {Cycle(s2)} |->
    With([s4 \in {Upd(s3, RegUpdateZn(s3.reg, value))} |->
        Write(s4, addr, value)])])])])])])

\* CPU::dec_r
DecR(s, r) == Cycle(Upd(s, RegWrite(s.reg, r, WrapSub8(RegRead(s.reg, r), 1))))

\* CPU::inc_m
IncMNoTick(s, m) ==
    With([s1 \in {ResolveAddr(s, m)} |->
    With([addr \in {s1.ret} |->
    With([s2 \in {Read(s1, addr)} |->
    With([value \in {WrapAdd8(s2.ret, 1)} |->
    With([s4 \in {Upd(s2, RegUpdateZn(s2.reg, value))} |->
        Write(s4, addr, value)])])])])])
IncM(s, m) ==
    With([s1 \in {ResolveAddr(s, m)} |->
    With([addr \in {s1.ret} |->
    With([s2 \in {Read(s1, addr)} |->
    With([value \in {WrapAdd8(s2.ret, 1)} |->
    With([s3 \in {Cycle(s2)} |->
    With([s4 \in {Upd(s3, RegUpdateZn(s3.reg, value))} |->
        Write(s4, addr, value)])])])])])])

\* CPU::inc_r
IncR(s, r) == Cycle(Upd(s, RegWrite(s.reg, r, WrapAdd8(RegRead(s.reg, r), 1))))

\* CPU::sub
Sub(s, m) ==
    With([s1 \in {ResolveAddr(s, m)} |->
    With([a \in {RegRead(s1.reg, "a")} |->
    With([s2 \in {Read(s1, s1.ret)} |->
    With([b \in {BitXor(s2.ret, \hFF)} |->
        AddToA(s2, a, b, CarryIn(s2))])])])])

\* CPU::and
And(s, m) ==
    With([s1 \in {ResolveAddr(s, m)} |->
    With([s2 \in {Read(s1, s1.ret)} |->
        Upd(s2, RegWrite(s2.reg, "a", BitAnd(RegRead(s2.reg, "a"), s2.ret)))])])

\* CPU::asl_a
AslA(s) ==
    With([value \in {RegRead(s.reg, "a")} |->
    With([r1 \in {RegUpdateFlag(s.reg, "Carry", BitAnd(value, \h80) = \h80)} |->
        Cycle(Upd(s, RegWrite(r1, "a", Shl8(value))))])])

\* CPU::asl
Asl(s, m) ==
    With([s1 \in {ResolveAddr(s, m)} |->
    With([addr \in {s1.ret} |->
    With([s2 \in {Read(s1, addr)} |->
    With([value \in {s2.ret} |->
    With([s3 \in {Cycle(Upd(s2, RegUpdateFlag(s2.reg, "Carry", BitAnd(value, \h80) = \h80)))} |->
    With([s4 \in {Upd(s3, RegUpdateZn(s3.reg, Shl8(value)))} |->
        Write(s4, addr, Shl8(value))])])])])])])

\* CPU::bits
Bits(s, m) ==
    With([s1 \in {ResolveAddr(s, m)} |->
    With([s2 \in {Read(s1, s1.ret)} |->
    With([value \in {s2.ret} |->
    With([r1 \in {RegUpdateFlag(s2.reg, "Zero", BitAnd(RegRead(s2.reg, "a"), value) = 0)} |->
    With([r2 \in {RegUpdateFlag(r1, "Overflow", BitAnd(value, \h40) = \h40)} |->
        Upd(s2, RegUpdateFlag(r2, "Negative", BitAnd(value, \h80) = \h80))])])])])])

\* CPU::xor
Xor(s, m) ==
    With([s1 \in {ResolveAddr(s, m)} |->
    With([s2 \in {Read(s1, s1.ret)} |->
        Upd(s2, RegWrite(s2.reg, "a", BitXor(RegRead(s2.reg, "a"), s2.ret)))])])

\* CPU::lsr_a
LsrA(s) ==
    With([value \in {RegRead(s.reg, "a")} |->
    With([r1 \in {RegUpdateFlag(s.reg, "Carry", BitAnd(value, \h01) = \h01)} |->
        Cycle(Upd(s, RegWrite(r1, "a", Shr8(value))))])])

\* CPU::lsr
Lsr(s, m) ==
    With([s1 \in {ResolveAddr(s, m)} |->
    With([addr \in {s1.ret} |->
    With([s2 \in {Read(s1, addr)} |->
    With([value \in {s2.ret} |->
    With([s3 \in {Cycle(Upd(s2, RegUpdateFlag(s2.reg, "Carry", BitAnd(value, \h01) = \h01)))} |->
    With([s4 \in {Upd(s3, RegUpdateZn(s3.reg, Shr8(value)))} |->
        Write(s4, addr, Shr8(value))])])])])])])

\* CPU::or
Or(s, m) ==
    With([s1 \in {ResolveAddr(s, m)} |->
    With([s2 \in {Read(s1, s1.ret)} |->
        Upd(s2, RegWrite(s2.reg, "a", BitOr(RegRead(s2.reg, "a"), s2.ret)))])])

\* CPU::flag
FlagOp(s, f, on) == Cycle(Upd(s, RegUpdateFlag(s.reg, f, on)))

\* The three flag updates compare and dcp make for register value rv and
\* operand value
CompareFlags(r, rv, value) ==
    With([r1 \in {RegUpdateFlag(r, "Carry", rv >= value)} |->
    With([r2 \in {RegUpdateFlag(r1, "Zero", rv = value)} |->
        RegUpdateFlag(r2, "Negative", BitAnd(AsU16(rv - value), \h80) = \h80)])])

\* CPU::compare
Compare(s, r, m) ==
    With([rv \in {RegRead(s.reg, r)} |->
    With([s1 \in {ResolveAddr(s, m)} |->
    With([s2 \in {Read(s1, s1.ret)} |->
        Upd(s2, CompareFlags(s2.reg, rv, s2.ret))])])])

\* CPU::jsr
Jsr(s) ==
    With([t \in {WrapAdd16(s.reg.pc, 1)} |->
    With([s1 \in {Cycle(s)} |->
    With([s2 \in {Push16(s1, t)} |->
    With([s3 \in {Imm16(s2)} |->
    With([s4 \in {Read16(s3, s3.ret)} |->
        Upd(s4, [s4.reg EXCEPT !.pc = s4.ret])])])])])])

\* CPU::jump
Jump(s, m) ==
    With([s1 \in {ResolveAddr(s, m)} |->
        Upd(s1, [s1.reg EXCEPT !.pc = s1.ret])])

\* The byte stack() pushes for register r
PushedByteRaw(s, r) == RegRead(s.reg, r)
PushedByte(s, r) ==
    IF r = "p" THEN BitOr(RegRead(s.reg, "p"), \h10) ELSE RegRead(s.reg, r)

\* CPU::stack
Stack(s, r, push) ==
    IF push
    THEN With([s1 \in {Cycle(s)} |->
             Push(s1, PushedByte(s1, r))])
    ELSE With([s1 \in {Cycle(Cycle(s))} |->
     With([s2 \in {Pop(s1)} |->
             Upd(s2, RegWrite(s2.reg, r, s2.ret))])])

\* CPU::rti
Rti(s) ==
    With([s1 \in {Stack(s, "p", FALSE)} |->
    With([s2 \in {Pop16(s1)} |->
        Upd(s2, [s2.reg EXCEPT !.pc = s2.ret])])])

\* CPU::rts
Rts(s) ==
    With([s1 \in {Cycle(Cycle(s))} |->
    With([s2 \in {Pop16(s1)} |->
    With([addr \in {WrapAdd16(s2.ret, 1)} |->
        Cycle(Upd(s2, [s2.reg EXCEPT !.pc = addr]))])])])

\* CPU::brk
BrkNoBreakBit(s) ==
    With([addr \in {WrapAdd16(s.reg.pc, 1)} |->
    With([s1 \in {Push16(s, addr)} |->
    With([flags \in {RegRead(s1.reg, "p")} |->
    With([s2 \in {Push(s1, flags)} |->
    With([s3 \in {Upd(s2, RegUpdateFlag(s2.reg, "Interrupt", TRUE))} |->
    With([s4 \in {IF s3.nmi THEN Read16(s3, NMI_VECTOR) ELSE Read16(s3, IRQ_VECTOR)} |->
        Upd(s4, [s4.reg EXCEPT !.pc = s4.ret])])])])])])])
Brk(s) ==
    With([addr \in {WrapAdd16(s.reg.pc, 1)} |->
    With([s1 \in {Push16(s, addr)} |->
    With([flags \in {BitOr(RegRead(s1.reg, "p"), \h10)} |->
    With([s2 \in {Push(s1, flags)} |->
    With([s3 \in {Upd(s2, RegUpdateFlag(s2.reg, "Interrupt", TRUE))} |->
    With([s4 \in {IF s3.nmi THEN Read16(s3, NMI_VECTOR) ELSE Read16(s3, IRQ_VECTOR)} |->
        Upd(s4, [s4.reg EXCEPT !.pc = s4.ret])])])])])])])

\* CPU::branch; pc as i16 + i16::from(value) traps in a checked build when
\* it leaves the i16 range
BranchNoTakenTick(s, cond, when) ==
    With([s1 \in {Imm(s)} |->
    With([s2 \in {Read(s1, s1.ret)} |->
    With([value \in {AsI8(s2.ret)} |->
        IF RegCheckFlag(s2.reg, cond) = when
        THEN With([pc \in {s2.reg.pc} |->
             With([s4 \in {IF Cross(pc, s2.ret) THEN Cycle(s2) ELSE s2} |->
             With([res \in {AsI16(pc) + value} |->
                 IF (res > 32767 \/ res < -32768) /\ s.checked
                 THEN Panic(s4)
                 ELSE Upd(s4, [s4.reg EXCEPT !.pc = AsU16(res)])])])])
        ELSE s2])])])
Branch(s, cond, when) ==
    With([s1 \in {Imm(s)} |->
    With([s2 \in {Read(s1, s1.ret)} |->
    With([value \in {AsI8(s2.ret)} |->
        IF RegCheckFlag(s2.reg, cond) = when
        THEN With([s3 \in {Cycle(s2)} |->
             With([pc \in {s3.reg.pc} |->
             With([s4 \in {IF Cross(pc, s2.ret) THEN Cycle(s3) ELSE s3} |->
             With([res \in {AsI16(pc) + value} |->
                 IF (res > 32767 \/ res < -32768) /\ s.checked
                 THEN Panic(s4)
                 ELSE Upd(s4, [s4.reg EXCEPT !.pc = AsU16(res)])])])])])
        ELSE s2])])])

\* CPU::nop
Nop(s, m) ==
    IF m.k # "None"
    THEN With([s1 \in {ResolveAddr(s, m)} |->
             Cycle(Read(s1, s1.ret))])
    ELSE Cycle(s)

\* CPU::rol_a
RolA(s) ==
    With([c \in {CarryIn(s)} |->
    With([value \in {RegRead(s.reg, "a")} |->
    With([r1 \in {RegUpdateFlag(s.reg, "Carry", BitAnd(value, \h80) = \h80)} |->
        Cycle(Upd(s, RegWrite(r1, "a", BitOr(Shl8(value), c))))])])])

\* CPU::rol
Rol(s, m) ==
    With([c \in {CarryIn(s)} |->
    With([s1 \in {ResolveAddr(s, m)} |->
    With([addr \in {s1.ret} |->
    With([s2 \in {Read(s1, addr)} |->
    With([value \in {s2.ret} |->
    With([s3 \in {Cycle(Upd(s2, RegUpdateFlag(s2.reg, "Carry", BitAnd(value, \h80) = \h80)))} |->
    With([s4 \in {Upd(s3, RegUpdateZn(s3.reg, BitOr(Shl8(value), c)))} |->
        Write(s4, addr, BitOr(Shl8(value), c))])])])])])])])

\* CPU::ror_a
RorA(s) ==
    With([c \in {IF RegCheckFlag(s.reg, "Carry") THEN \h80 ELSE 0} |->
    With([value \in {RegRead(s.reg, "a")} |->
    With([r1 \in {RegUpdateFlag(s.reg, "Carry", BitAnd(value, \h01) = \h01)} |->
        Cycle(Upd(s, RegWrite(r1, "a", BitOr(c, Shr8(value)))))])])])

\* CPU::ror
Ror(s, m) ==
    With([c \in {IF RegCheckFlag(s.reg, "Carry") THEN \h80 ELSE 0} |->
    With([s1 \in {ResolveAddr(s, m)} |->
    With([addr \in {s1.ret} |->
    With([s2 \in {Read(s1, addr)} |->
    With([value \in {s2.ret} |->
    With([s3 \in {Cycle(Upd(s2, RegUpdateFlag(s2.reg, "Carry", BitAnd(value, \h01) = \h01)))} |->
    With([s4 \in {Upd(s3, RegUpdateZn(s3.reg, BitOr(c, Shr8(value))))} |->
        Write(s4, addr, BitOr(c, Shr8(value)))])])])])])])])

----------------------------------------------------------------------------
\* Illegal instructions

\* CPU::lax
Lax(s, m) ==
    With([s1 \in {ResolveAddr(s, m)} |->
    With([s2 \in {Read(s1, s1.ret)} |->
        Upd(s2, RegWrite(RegWrite(s2.reg, "a", s2.ret), "x", s2.ret))])])

\* CPU::sax
Sax(s, m) ==
    With([s1 \in {ResolveAddr(s, m)} |->
        Write(s1, s1.ret, BitAnd(RegRead(s1.reg, "a"), RegRead(s1.reg, "x")))])

\* CPU::dcp
Dcp(s, m) ==
    With([s1 \in {ResolveAddr(s, m)} |->
    With([addr \in {s1.ret} |->
    With([s2 \in {Read(s1, addr)} |->
    With([value \in {WrapSub8(s2.ret, 1)} |->
    With([s3 \in {Cycle(s2)} |->
    With([s4 \in {Upd(s3, CompareFlags(s3.reg, RegRead(s3.reg, "a"), value))} |->
        Write(s4, addr, value)])])])])])])

\* CPU::isb
Isb(s, m) ==
    With([s1 \in {ResolveAddr(s, m)} |->
    With([addr \in {s1.ret} |->
    With([s2 \in {Read(s1, addr)} |->
    With([value \in {WrapAdd8(s2.ret, 1)} |->
    With([s3 \in {Cycle(s2)} |->
    With([s4 \in {AddToA(s3, RegRead(s3.reg, "a"), BitXor(value, \hFF), CarryIn(s3))} |->
        Write(s4, addr, value)])])])])])])

\* CPU::slo
Slo(s, m) ==
    With([s1 \in {ResolveAddr(s, m)} |->
    With([addr \in {s1.ret} |->
    With([s2 \in {Read(s1, addr)} |->
    With([value \in {s2.ret} |->
    With([s3 \in {Cycle(s2)} |->
    With([r1 \in {RegUpdateFlag(s3.reg, "Carry", BitAnd(value, \h80) = \h80)} |->
    With([a \in {RegRead(r1, "a")} |->
    With([r2 \in {RegWrite(RegUpdateZn(r1, Shl8(value)), "a", BitOr(a, Shl8(value)))} |->
        Write(Upd(s3, r2), addr, Shl8(value))])])])])])])])])

\* CPU::rla
Rla(s, m) ==
    With([s1 \in {ResolveAddr(s, m)} |->
    With([addr \in {s1.ret} |->
    With([s2 \in {Read(s1, addr)} |->
    With([value \in {s2.ret} |->
    With([s3 \in {Cycle(s2)} |->
    With([c \in {CarryIn(s3)} |->
    With([r1 \in {RegUpdateFlag(s3.reg, "Carry", BitAnd(value, \h80) = \h80)} |->
    With([a \in {RegRead(r1, "a")} |->
    With([result \in {BitOr(Shl8(value), c)} |->
    With([r2 \in {RegWrite(RegUpdateZn(r1, result), "a", BitAnd(a, result))} |->
        Write(Upd(s3, r2), addr, result)])])])])])])])])])])

\* CPU::sre
Sre(s, m) ==
    With([s1 \in {ResolveAddr(s, m)} |->
    With([addr \in {s1.ret} |->
    With([s2 \in {Read(s1, addr)} |->
    With([value \in {s2.ret} |->
    With([s3 \in {Cycle(s2)} |->
    With([r1 \in {RegUpdateFlag(s3.reg, "Carry", BitAnd(value, \h01) = \h01)} |->
    With([a \in {RegRead(r1, "a")} |->
    With([result \in {Shr8(value)} |->
    With([r2 \in {RegWrite(RegUpdateZn(r1, result), "a", BitXor(a, result))} |->
        Write(Upd(s3, r2), addr, result)])])])])])])])])])

\* CPU::rra
Rra(s, m) ==
    With([s1 \in {ResolveAddr(s, m)} |->
    With([addr \in {s1.ret} |->
    With([s2 \in {Read(s1, addr)} |->
    With([value \in {s2.ret} |->
    With([s3 \in {Cycle(s2)} |->
    With([c \in {IF RegCheckFlag(s3.reg, "Carry") THEN \h80 ELSE 0} |->
    With([r1 \in {RegUpdateFlag(s3.reg, "Carry", BitAnd(value, \h01) = \h01)} |->
    With([x \in {BitOr(c, Shr8(value))} |->
    With([s4 \in {Upd(s3, RegUpdateZn(r1, x))} |->
    With([s5 \in {AddToA(s4, RegRead(s4.reg, "a"), x, CarryIn(s4))} |->
        Write(s5, addr, x)])])])])])])])])])])

\* CPU::aac
Aac(s, m) ==
    With([s1 \in {ResolveAddr(s, m)} |->
    With([s2 \in {Read(s1, s1.ret)} |->
    With([r1 \in {RegWrite(s2.reg, "a", BitAnd(RegRead(s2.reg, "a"), s2.ret))} |->
        Upd(s2, RegUpdateFlag(r1, "Carry", RegCheckFlag(r1, "Negative")))])])])

\* CPU::asr
Asr(s, m) ==
    With([s1 \in {ResolveAddr(s, m)} |->
    With([s2 \in {Read(s1, s1.ret)} |->
    With([r1 \in {RegWrite(s2.reg, "a", BitAnd(RegRead(s2.reg, "a"), s2.ret))} |->
    With([res \in {RegRead(r1, "a")} |->
    With([r2 \in {RegUpdateFlag(r1, "Carry", BitAnd(res, \h01) = \h01)} |->
        Upd(s2, RegWrite(r2, "a", Shr8(res)))])])])])])

\* CPU::arr
Arr(s, m) ==
    With([s1 \in {ResolveAddr(s, m)} |->
    With([s2 \in {Read(s1, s1.ret)} |->
    With([value \in {s2.ret} |->
    With([res \in {IF RegCheckFlag(s2.reg, "Carry")
               THEN BitOr(Shr8(BitAnd(RegRead(s2.reg, "a"), value)), \h80)
               ELSE Shr8(BitAnd(RegRead(s2.reg, "a"), value))} |->
    With([r1 \in {RegWrite(s2.reg, "a", res)} |->
    With([rv \in {RegRead(r1, "a")} |->
    With([r2 \in {RegUpdateFlag(r1, "Carry", BitAnd(rv, \h40) = \h40)} |->
    With([x \in {IF RegCheckFlag(r2, "Carry") THEN 1 ELSE 0} |->
        Upd(s2, RegUpdateFlag(r2, "Overflow",
                              BitXor(x, BitAnd(rv \div 32, \h01)) # 0))])])])])])])])])

\* CPU::atx
Atx(s, m) ==
    With([s1 \in {ResolveAddr(s, m)} |->
    With([s2 \in {Read(s1, s1.ret)} |->
    With([value \in {s2.ret} |->
        Upd(s2, RegWrite(RegWrite(RegWrite(s2.reg, "a", value), "x", value), "a", value))])])])

\* CPU::axs
Axs(s, m) ==
    With([s1 \in {ResolveAddr(s, m)} |->
    With([s2 \in {Read(s1, s1.ret)} |->
    With([value \in {s2.ret} |->
    With([ax \in {BitAnd(RegRead(s2.reg, "a"), RegRead(s2.reg, "x"))} |->
    With([r1 \in {RegUpdateFlag(s2.reg, "Carry", ax >= value)} |->
        Upd(s2, RegWrite(r1, "x", WrapSub8(ax, value)))])])])])])

\* CPU::sa
Sa(s, r, m) ==
    With([s1 \in {ResolveAddr(s, m)} |->
    With([addr \in {s1.ret} |->
    With([hi \in {addr \div 256} |->
    With([lo \in {BitAnd(addr, \hFF)} |->
    With([val \in {BitAnd(RegRead(s1.reg, r), WrapAdd8(hi, 1))} |->
    With([ad \in {BitOr(val * 256, lo)} |->
        Write(s1, ad, val)])])])])])])

----------------------------------------------------------------------------
\* cpu::ops (its source is not part of the sources at hand): Operation,
\* AddressingMode and the conversion of an opcode byte into an Operation.
\* The variants are those CPU::execute and CPU::resolve_addr match on; the
\* opcode assignment is the 6502's, with the page-cross flag set on the
\* load-class variants only.

Immediate == Mode("Immediate", FALSE)
Absolute == Mode("Absolute", FALSE)
AbsoluteX(extra) == Mode("AbsoluteX", extra)
AbsoluteY(extra) == Mode("AbsoluteY", extra)
ZeroPage == Mode("ZeroPage", FALSE)
ZeroPageX == Mode("ZeroPageX", FALSE)
ZeroPageY == Mode("ZeroPageY", FALSE)
Indirect == Mode("Indirect", FALSE)
IndirectX == Mode("IndirectX", FALSE)
IndirectY(extra) == Mode("IndirectY", extra)

Operation(op, r, r2, m, f, b) == [op |-> op, r |-> r, r2 |-> r2, m |-> m, f |-> f, b |-> b]
OpM(op, m) == Operation(op, "-", "-", m, "-", FALSE)
OpRM(op, r, m) == Operation(op, r, "-", m, "-", FALSE)
OpRR(op, r, r2) == Operation(op, r, r2, NoMode, "-", FALSE)
OpFB(op, f, b) == Operation(op, "-", "-", NoMode, f, b)
OpRB(op, r, b) == Operation(op, r, "-", NoMode, "-", b)
OpB(op, b) == Operation(op, "-", "-", NoMode, "-", b)

\* impl From<u8> for Operation
Decode(c) ==
    CASE c = \h00 -> OpM("Break", NoMode)
      [] c = \h01 -> OpM("Or", IndirectX)
      [] c = \h03 -> OpM("Slo", IndirectX)
      [] c = \h04 -> OpM("Nop", ZeroPage)
      [] c = \h05 -> OpM("Or", ZeroPage)
      [] c = \h06 -> OpM("Asl", ZeroPage)
      [] c = \h07 -> OpM("Slo", ZeroPage)
      [] c = \h08 -> OpRB("Stack", "p", TRUE)
      [] c = \h09 -> OpM("Or", Immediate)
      [] c = \h0A -> OpM("Asl", NoMode)
      [] c = \h0B -> OpM("Aac", Immediate)
      [] c = \h0C -> OpM("Nop", Absolute)
      [] c = \h0D -> OpM("Or", Absolute)
      [] c = \h0E -> OpM("Asl", Absolute)
      [] c = \h0F -> OpM("Slo", Absolute)
      [] c = \h10 -> OpFB("Branch", "Negative", FALSE)
      [] c = \h11 -> OpM("Or", IndirectY(TRUE))
      [] c = \h13 -> OpM("Slo", IndirectY(FALSE))
      [] c = \h14 -> OpM("Nop", ZeroPageX)
      [] c = \h15 -> OpM("Or", ZeroPageX)
      [] c = \h16 -> OpM("Asl", ZeroPageX)
      [] c = \h17 -> OpM("Slo", ZeroPageX)
      [] c = \h18 -> OpFB("Flag", "Carry", FALSE)
      [] c = \h19 -> OpM("Or", AbsoluteY(TRUE))
      [] c = \h1A -> OpM("Nop", NoMode)
      [] c = \h1B -> OpM("Slo", AbsoluteY(FALSE))
      [] c = \h1C -> OpM("Nop", AbsoluteX(TRUE))
      [] c = \h1D -> OpM("Or", AbsoluteX(TRUE))
      [] c = \h1E -> OpM("Asl", AbsoluteX(FALSE))
      [] c = \h1F -> OpM("Slo", AbsoluteX(FALSE))
      [] c = \h20 -> OpM("Jump", NoMode)
      [] c = \h21 -> OpM("And", IndirectX)
      [] c = \h23 -> OpM("Rla", IndirectX)
      [] c = \h24 -> OpM("Bits", ZeroPage)
      [] c = \h25 -> OpM("And", ZeroPage)
      [] c = \h26 -> OpM("Rol", ZeroPage)
      [] c = \h27 -> OpM("Rla", ZeroPage)
      [] c = \h28 -> OpRB("Stack", "p", FALSE)
      [] c = \h29 -> OpM("And", Immediate)
      [] c = \h2A -> OpM("Rol", NoMode)
      [] c = \h2B -> OpM("Aac", Immediate)
      [] c = \h2C -> OpM("Bits", Absolute)
      [] c = \h2D -> OpM("And", Absolute)
      [] c = \h2E -> OpM("Rol", Absolute)
      [] c = \h2F -> OpM("Rla", Absolute)
      [] c = \h30 -> OpFB("Branch", "Negative", TRUE)
      [] c = \h31 -> OpM("And", IndirectY(TRUE))
      [] c = \h33 -> OpM("Rla", IndirectY(FALSE))
      [] c = \h34 -> OpM("Nop", ZeroPageX)
      [] c = \h35 -> OpM("And", ZeroPageX)
      [] c = \h36 -> OpM("Rol", ZeroPageX)
      [] c = \h37 -> OpM("Rla", ZeroPageX)
      [] c = \h38 -> OpFB("Flag", "Carry", TRUE)
      [] c = \h39 -> OpM("And", AbsoluteY(TRUE))
      [] c = \h3A -> OpM("Nop", NoMode)
      [] c = \h3B -> OpM("Rla", AbsoluteY(FALSE))
      [] c = \h3C -> OpM("Nop", AbsoluteX(TRUE))
      [] c = \h3D -> OpM("And", AbsoluteX(TRUE))
      [] c = \h3E -> OpM("Rol", AbsoluteX(FALSE))
      [] c = \h3F -> OpM("Rla", AbsoluteX(FALSE))
      [] c = \h40 -> OpB("Ret", FALSE)
      [] c = \h41 -> OpM("Xor", IndirectX)
      [] c = \h43 -> OpM("Sre", IndirectX)
      [] c = \h44 -> OpM("Nop", ZeroPage)
      [] c = \h45 -> OpM("Xor", ZeroPage)
      [] c = \h46 -> OpM("Lsr", ZeroPage)
      [] c = \h47 -> OpM("Sre", ZeroPage)
      [] c = \h48 -> OpRB("Stack", "a", TRUE)
      [] c = \h49 -> OpM("Xor", Immediate)
      [] c = \h4A -> OpM("Lsr", NoMode)
      [] c = \h4B -> OpM("Asr", Immediate)
      [] c = \h4C -> OpM("Jump", Absolute)
      [] c = \h4D -> OpM("Xor", Absolute)
      [] c = \h4E -> OpM("Lsr", Absolute)
      [] c = \h4F -> OpM("Sre", Absolute)
      [] c = \h50 -> OpFB("Branch", "Overflow", FALSE)
      [] c = \h51 -> OpM("Xor", IndirectY(TRUE))
      [] c = \h53 -> OpM("Sre", IndirectY(FALSE))
      [] c = \h54 -> OpM("Nop", ZeroPageX)
      [] c = \h55 -> OpM("Xor", ZeroPageX)
      [] c = \h56 -> OpM("Lsr", ZeroPageX)
      [] c = \h57 -> OpM("Sre", ZeroPageX)
      [] c = \h58 -> OpFB("Flag", "Interrupt", FALSE)
      [] c = \h59 -> OpM("Xor", AbsoluteY(TRUE))
      [] c = \h5A -> OpM("Nop", NoMode)
      [] c = \h5B -> OpM("Sre", AbsoluteY(FALSE))
      [] c = \h5C -> OpM("Nop", AbsoluteX(TRUE))
      [] c = \h5D -> OpM("Xor", AbsoluteX(TRUE))
      [] c = \h5E -> OpM("Lsr", AbsoluteX(FALSE))
      [] c = \h5F -> OpM("Sre", AbsoluteX(FALSE))
      [] c = \h60 -> OpB("Ret", TRUE)
      [] c = \h61 -> OpM("Add", IndirectX)
      [] c = \h63 -> OpM("Rra", IndirectX)
      [] c = \h64 -> OpM("Nop", ZeroPage)
      [] c = \h65 -> OpM("Add", ZeroPage)
      [] c = \h66 -> OpM("Ror", ZeroPage)
      [] c = \h67 -> OpM("Rra", ZeroPage)
      [] c = \h68 -> OpRB("Stack", "a", FALSE)
      [] c = \h69 -> OpM("Add", Immediate)
      [] c = \h6A -> OpM("Ror", NoMode)
      [] c = \h6B -> OpM("Arr", Immediate)
      [] c = \h6C -> OpM("Jump", Indirect)
      [] c = \h6D -> OpM("Add", Absolute)
      [] c = \h6E -> OpM("Ror", Absolute)
      [] c = \h6F -> OpM("Rra", Absolute)
      [] c = \h70 -> OpFB("Branch", "Overflow", TRUE)
      [] c = \h71 -> OpM("Add", IndirectY(TRUE))
      [] c = \h73 -> OpM("Rra", IndirectY(FALSE))
      [] c = \h74 -> OpM("Nop", ZeroPageX)
      [] c = \h75 -> OpM("Add", ZeroPageX)
      [] c = \h76 -> OpM("Ror", ZeroPageX)
      [] c = \h77 -> OpM("Rra", ZeroPageX)
      [] c = \h78 -> OpFB("Flag", "Interrupt", TRUE)
      [] c = \h79 -> OpM("Add", AbsoluteY(TRUE))
      [] c = \h7A -> OpM("Nop", NoMode)
      [] c = \h7B -> OpM("Rra", AbsoluteY(FALSE))
      [] c = \h7C -> OpM("Nop", AbsoluteX(TRUE))
      [] c = \h7D -> OpM("Add", AbsoluteX(TRUE))
      [] c = \h7E -> OpM("Ror", AbsoluteX(FALSE))
      [] c = \h7F -> OpM("Rra", AbsoluteX(FALSE))
      [] c = \h80 -> OpM("Nop", Immediate)
      [] c = \h81 -> OpRM("Store", "a", IndirectX)
      [] c = \h82 -> OpM("Nop", Immediate)
      [] c = \h83 -> OpM("Sax", IndirectX)
      [] c = \h84 -> OpRM("Store", "y", ZeroPage)
      [] c = \h85 -> OpRM("Store", "a", ZeroPage)
      [] c = \h86 -> OpRM("Store", "x", ZeroPage)
      [] c = \h87 -> OpM("Sax", ZeroPage)
      [] c = \h88 -> OpRM("Dec", "y", NoMode)
      [] c = \h89 -> OpM("Nop", Immediate)
      [] c = \h8A -> OpRR("Transfer", "x", "a")
      [] c = \h8C -> OpRM("Store", "y", Absolute)
      [] c = \h8D -> OpRM("Store", "a", Absolute)
      [] c = \h8E -> OpRM("Store", "x", Absolute)
      [] c = \h8F -> OpM("Sax", Absolute)
      [] c = \h90 -> OpFB("Branch", "Carry", FALSE)
      [] c = \h91 -> OpRM("Store", "a", IndirectY(FALSE))
      [] c = \h94 -> OpRM("Store", "y", ZeroPageX)
      [] c = \h95 -> OpRM("Store", "a", ZeroPageX)
      [] c = \h96 -> OpRM("Store", "x", ZeroPageY)
      [] c = \h97 -> OpM("Sax", ZeroPageY)
      [] c = \h98 -> OpRR("Transfer", "y", "a")
      [] c = \h99 -> OpRM("Store", "a", AbsoluteY(FALSE))
      [] c = \h9A -> OpRR("Transfer", "x", "sp")
      [] c = \h9C -> OpRM("Sa", "y", AbsoluteX(FALSE))
      [] c = \h9D -> OpRM("Store", "a", AbsoluteX(FALSE))
      [] c = \h9E -> OpRM("Sa", "x", AbsoluteY(FALSE))
      [] c = \hA0 -> OpRM("Load", "y", Immediate)
      [] c = \hA1 -> OpRM("Load", "a", IndirectX)
      [] c = \hA2 -> OpRM("Load", "x", Immediate)
      [] c = \hA3 -> OpM("Lax", IndirectX)
      [] c = \hA4 -> OpRM("Load", "y", ZeroPage)
      [] c = \hA5 -> OpRM("Load", "a", ZeroPage)
      [] c = \hA6 -> OpRM("Load", "x", ZeroPage)
      [] c = \hA7 -> OpM("Lax", ZeroPage)
      [] c = \hA8 -> OpRR("Transfer", "a", "y")
      [] c = \hA9 -> OpRM("Load", "a", Immediate)
      [] c = \hAA -> OpRR("Transfer", "a", "x")
      [] c = \hAB -> OpM("Atx", Immediate)
      [] c = \hAC -> OpRM("Load", "y", Absolute)
      [] c = \hAD -> OpRM("Load", "a", Absolute)
      [] c = \hAE -> OpRM("Load", "x", Absolute)
      [] c = \hAF -> OpM("Lax", Absolute)
      [] c = \hB0 -> OpFB("Branch", "Carry", TRUE)
      [] c = \hB1 -> OpRM("Load", "a", IndirectY(TRUE))
      [] c = \hB3 -> OpM("Lax", IndirectY(TRUE))
      [] c = \hB4 -> OpRM("Load", "y", ZeroPageX)
      [] c = \hB5 -> OpRM("Load", "a", ZeroPageX)
      [] c = \hB6 -> OpRM("Load", "x", ZeroPageY)
      [] c = \hB7 -> OpM("Lax", ZeroPageY)
      [] c = \hB8 -> OpFB("Flag", "Overflow", FALSE)
      [] c = \hB9 -> OpRM("Load", "a", AbsoluteY(TRUE))
      [] c = \hBA -> OpRR("Transfer", "sp", "x")
      [] c = \hBC -> OpRM("Load", "y", AbsoluteX(TRUE))
      [] c = \hBD -> OpRM("Load", "a", AbsoluteX(TRUE))
      [] c = \hBE -> OpRM("Load", "x", AbsoluteY(TRUE))
      [] c = \hBF -> OpM("Lax", AbsoluteY(TRUE))
      [] c = \hC0 -> OpRM("Compare", "y", Immediate)
      [] c = \hC1 -> OpRM("Compare", "a", IndirectX)
      [] c = \hC2 -> OpM("Nop", Immediate)
      [] c = \hC3 -> OpM("Dcp", IndirectX)
      [] c = \hC4 -> OpRM("Compare", "y", ZeroPage)
      [] c = \hC5 -> OpRM("Compare", "a", ZeroPage)
      [] c = \hC6 -> OpM("Dec", ZeroPage)
      [] c = \hC7 -> OpM("Dcp", ZeroPage)
      [] c = \hC8 -> OpRM("Inc", "y", NoMode)
      [] c = \hC9 -> OpRM("Compare", "a", Immediate)
      [] c = \hCA -> OpRM("Dec", "x", NoMode)
      [] c = \hCB -> OpM("Axs", Immediate)
      [] c = \hCC -> OpRM("Compare", "y", Absolute)
      [] c = \hCD -> OpRM("Compare", "a", Absolute)
      [] c = \hCE -> OpM("Dec", Absolute)
      [] c = \hCF -> OpM("Dcp", Absolute)
      [] c = \hD0 -> OpFB("Branch", "Zero", FALSE)
      [] c = \hD1 -> OpRM("Compare", "a", IndirectY(TRUE))
      [] c = \hD3 -> OpM("Dcp", IndirectY(FALSE))
      [] c = \hD4 -> OpM("Nop", ZeroPageX)
      [] c = \hD5 -> OpRM("Compare", "a", ZeroPageX)
      [] c = \hD6 -> OpM("Dec", ZeroPageX)
      [] c = \hD7 -> OpM("Dcp", ZeroPageX)
      [] c = \hD8 -> OpFB("Flag", "Decimal", FALSE)
      [] c = \hD9 -> OpRM("Compare", "a", AbsoluteY(TRUE))
      [] c = \hDA -> OpM("Nop", NoMode)
      [] c = \hDB -> OpM("Dcp", AbsoluteY(FALSE))
      [] c = \hDC -> OpM("Nop", AbsoluteX(TRUE))
      [] c = \hDD -> OpRM("Compare", "a", AbsoluteX(TRUE))
      [] c = \hDE -> OpM("Dec", AbsoluteX(FALSE))
      [] c = \hDF -> OpM("Dcp", AbsoluteX(FALSE))
      [] c = \hE0 -> OpRM("Compare", "x", Immediate)
      [] c = \hE1 -> OpM("Sub", IndirectX)
      [] c = \hE2 -> OpM("Nop", Immediate)
      [] c = \hE3 -> OpM("Isb", IndirectX)
      [] c = \hE4 -> OpRM("Compare", "x", ZeroPage)
      [] c = \hE5 -> OpM("Sub", ZeroPage)
      [] c = \hE6 -> OpM("Inc", ZeroPage)
      [] c = \hE7 -> OpM("Isb", ZeroPage)
      [] c = \hE8 -> OpRM("Inc", "x", NoMode)
      [] c = \hE9 -> OpM("Sub", Immediate)
      [] c = \hEA -> OpM("Nop", NoMode)
      [] c = \hEB -> OpM("Sub", Immediate)
      [] c = \hEC -> OpRM("Compare", "x", Absolute)
      [] c = \hED -> OpM("Sub", Absolute)
      [] c = \hEE -> OpM("Inc", Absolute)
      [] c = \hEF -> OpM("Isb", Absolute)
      [] c = \hF0 -> OpFB("Branch", "Zero", TRUE)
      [] c = \hF1 -> OpM("Sub", IndirectY(TRUE))
      [] c = \hF3 -> OpM("Isb", IndirectY(FALSE))
      [] c = \hF4 -> OpM("Nop", ZeroPageX)
      [] c = \hF5 -> OpM("Sub", ZeroPageX)
      [] c = \hF6 -> OpM("Inc", ZeroPageX)
      [] c = \hF7 -> OpM("Isb", ZeroPageX)
      [] c = \hF8 -> OpFB("Flag", "Decimal", TRUE)
      [] c = \hF9 -> OpM("Sub", AbsoluteY(TRUE))
      [] c = \hFA -> OpM("Nop", NoMode)
      [] c = \hFB -> OpM("Isb", AbsoluteY(FALSE))
      [] c = \hFC -> OpM("Nop", AbsoluteX(TRUE))
      [] c = \hFD -> OpM("Sub", AbsoluteX(TRUE))
      [] c = \hFE -> OpM("Inc", AbsoluteX(FALSE))
      [] c = \hFF -> OpM("Isb", AbsoluteX(FALSE))
      [] OTHER -> OpM("BadOp", NoMode)

----------------------------------------------------------------------------
\* CPU::execute: the match on the decoded operation
Dispatch(s, ins) ==
    CASE ins.op = "Load" -> Load(s, ins.r, ins.m)
      [] ins.op = "Store" -> Store(s, ins.r, ins.m)
      [] ins.op = "Transfer" -> Transfer(s, ins.r, ins.r2)
      [] ins.op = "Add" -> Add(s, ins.m)
      [] ins.op = "Inc" /\ ins.r # "-" -> IncR(s, ins.r)
      [] ins.op = "Inc" /\ ins.r = "-" -> IncM(s, ins.m)
      [] ins.op = "Dec" /\ ins.r # "-" -> DecR(s, ins.r)
      [] ins.op = "Dec" /\ ins.r = "-" -> DecM(s, ins.m)
      [] ins.op = "Sub" -> Sub(s, ins.m)
      [] ins.op = "And" -> And(s, ins.m)
      [] ins.op = "Asl" /\ ins.m = NoMode -> AslA(s)
      [] ins.op = "Asl" /\ ins.m # NoMode -> Asl(s, ins.m)
      [] ins.op = "Bits" -> Bits(s, ins.m)
      [] ins.op = "Xor" -> Xor(s, ins.m)
      [] ins.op = "Lsr" /\ ins.m = NoMode -> LsrA(s)
      [] ins.op = "Lsr" /\ ins.m # NoMode -> Lsr(s, ins.m)
      [] ins.op = "Or" -> Or(s, ins.m)
      [] ins.op = "Rol" /\ ins.m = NoMode -> RolA(s)
      [] ins.op = "Rol" /\ ins.m # NoMode -> Rol(s, ins.m)
      [] ins.op = "Ror" /\ ins.m = NoMode -> RorA(s)
      [] ins.op = "Ror" /\ ins.m # NoMode -> Ror(s, ins.m)
      [] ins.op = "Branch" -> Branch(s, ins.f, ins.b)
      [] ins.op = "Jump" /\ ins.m = NoMode -> Jsr(s)
      [] ins.op = "Jump" /\ ins.m # NoMode -> Jump(s, ins.m)
      [] ins.op = "Ret" /\ ins.b -> Rts(s)
      [] ins.op = "Ret" /\ ~ins.b -> Rti(s)
      [] ins.op = "Flag" -> FlagOp(s, ins.f, ins.b)
      [] ins.op = "Compare" -> Compare(s, ins.r, ins.m)
      [] ins.op = "Stack" -> Stack(s, ins.r, ins.b)
      [] ins.op = "Break" -> Brk(s)
      [] ins.op = "Nop" -> Nop(s, ins.m)
      [] ins.op = "Lax" -> Lax(s, ins.m)
      [] ins.op = "Sax" -> Sax(s, ins.m)
      [] ins.op = "Dcp" -> Dcp(s, ins.m)
      [] ins.op = "Isb" -> Isb(s, ins.m)
      [] ins.op = "Slo" -> Slo(s, ins.m)
      [] ins.op = "Rla" -> Rla(s, ins.m)
      [] ins.op = "Sre" -> Sre(s, ins.m)
      [] ins.op = "Rra" -> Rra(s, ins.m)
      [] ins.op = "Aac" -> Aac(s, ins.m)
      [] ins.op = "Asr" -> Asr(s, ins.m)
      [] ins.op = "Arr" -> Arr(s, ins.m)
      [] ins.op = "Atx" -> Atx(s, ins.m)
      [] ins.op = "Axs" -> Axs(s, ins.m)
      [] ins.op = "Sa" -> Sa(s, ins.r, ins.m)
      [] OTHER -> s

\* CPU::execute.  err is the number the Err string formats ({:02X} of p).
ExecuteCall(s) ==
    With([s1 \in {Imm(s)} |->
    With([p \in {s1.ret} |->
    With([s2 \in {Read(s1, p)} |->
    With([ins \in {Decode(s2.ret)} |->
    With([s3 \in {Dispatch(s2, ins)} |->
        [s |-> s3, ins |-> ins, opcode |-> s2.ret,
         result |-> IF s3.fault THEN "panic"
                    ELSE IF ins.op = "BadOp" THEN "Err" ELSE "Ok",
         err |-> p]])])])])])

\* CPU::init
InitCallIrq(s) ==
    With([s1 \in {Read16(s, IRQ_VECTOR)} |->
    With([r1 \in {[s1.reg EXCEPT !.pc = s1.ret]} |->
    With([r2 \in {RegWrite(r1, "sp", \hFD)} |->
        Upd(s1, RegWrite(r2, "p", \h24))])])])
InitCall(s) ==
    With([s1 \in {Read16(s, RESET_VECTOR)} |->
    With([r1 \in {[s1.reg EXCEPT !.pc = s1.ret]} |->
    With([r2 \in {RegWrite(r1, "sp", \hFD)} |->
        Upd(s1, RegWrite(r2, "p", \h24))])])])

----------------------------------------------------------------------------
\* The driver: it builds a TestMemory over an image, attaches a CPU, sets
\* memory and registers through the public fields (c.bus.write, c.reg.write,
\* c.reg.write_pc: tests/cpu_simple.rs does the same), then makes calls.

MaxSteps == 2

\* the machine record of a call on the current state
Machine ==
    [reg |-> reg, nmi |-> nmi, ram |-> ram, rom |-> rom, checked |-> checked,
     ev |-> <<>>, fault |-> FALSE, ret |-> 0]

Call(call, pre, ins, opcode, result, err, r, a, v) ==
    [call |-> call, pre |-> pre, ins |-> ins, opcode |-> opcode,
     result |-> result, err |-> err, r |-> r, a |-> a, v |-> v]
NoIns == OpM("-", NoMode)

\* the addresses of the write events of ev, in order
WritesOf(ev) ==
    LET w == SelectSeq(ev, LAMBDA e : e.k = "write")
    IN  [i \in 1..Len(w) |-> w[i].a]

LastKind(pr, ev) == IF ev = <<>> THEN pr ELSE ev[Len(ev)].k

\* the driver's c.bus.write(a, cells[a]) for every a in DOMAIN cells
RECURSIVE PokeAll(_, _, _)
PokeAll(mem, m, cells) ==
    IF DOMAIN cells = {} THEN [ram |-> mem, rom |-> m]
    ELSE LET a == CHOOSE x \in DOMAIN cells : TRUE
             w == MmuWrite(mem, m, a, cells[a])
         IN  PokeAll(w.ram, w.rom, [x \in DOMAIN cells \ {a} |-> cells[x]])

\* a well-formed image: header bytes <<d4, d5, d8>> and exactly the body
\* they announce
ImageLen(hdr) == 16 + hdr[1] * PRG_ROM_PAGE_SIZE + hdr[2] * CHR_ROM_PAGE_SIZE

\* TestMemory::new(image), CPU::new, then the driver's setup: registers r,
\* memory cells, n calls to come
Boot(r, cells, hdr, chk, n) ==
    \E m \in {NromNew(hdr[1], hdr[2], hdr[3], ImageLen(hdr), chk)} :
      \E mem \in {PokeAll(<<>>, m, cells)} :
        /\ reg = r
        /\ nmi = FALSE
        /\ ram = mem.ram
        /\ rom = mem.rom
        /\ checked = chk
        /\ fault = ~m.ok
        /\ trace = <<>>
        /\ prev = "none"
        /\ last = Call("new", r, NoIns, 0, "Ok", 0, "-", 0, 0)
        /\ wlog = <<>>
        /\ budget = n

\* c.execute()
Execute ==
    /\ ~fault
    /\ budget > 0
    /\ \E r \in {ExecuteCall(Machine)} :
           /\ reg' = r.s.reg
           /\ ram' = r.s.ram
           /\ rom' = r.s.rom
           /\ fault' = r.s.fault
           /\ trace' = r.s.ev
           /\ prev' = LastKind(prev, trace)
           /\ last' = Call("execute", reg, r.ins, r.opcode, r.result, r.err, "-", 0, 0)
           /\ wlog' = wlog \o WritesOf(r.s.ev)
    /\ budget' = budget - 1
    /\ UNCHANGED <<nmi, checked>>

\* c.init()
CpuInit ==
    /\ ~fault
    /\ budget > 0
    /\ \E s \in {InitCall(Machine)} :
           /\ reg' = s.reg
           /\ ram' = s.ram
           /\ rom' = s.rom
           /\ fault' = s.fault
           /\ trace' = s.ev
           /\ prev' = LastKind(prev, trace)
           /\ last' = Call("init", reg, NoIns, 0, IF s.fault THEN "panic" ELSE "Ok", 0, "-", 0, 0)
           /\ wlog' = wlog \o WritesOf(s.ev)
    /\ budget' = budget - 1
    /\ UNCHANGED <<nmi, checked>>

\* c.reg.write(r, v)
RegApiWrite(r, v) ==
    /\ ~fault
    /\ budget > 0
    /\ reg' = RegWrite(reg, r, v)
    /\ trace' = <<>>
    /\ prev' = LastKind(prev, trace)
    /\ last' = Call("reg.write", reg, NoIns, 0, "Ok", 0, r, 0, v)
    /\ budget' = budget - 1
    /\ UNCHANGED <<nmi, ram, rom, checked, fault, wlog>>

\* mapper.cpu_write(a, v) on the NROM itself
NromWrite(a, v) ==
    /\ ~fault
    /\ budget > 0
    /\ \E w \in {NromCpuWrite(rom, a, v)} :
           /\ rom' = w.m
           /\ fault' = ~w.ok
           /\ last' = Call("cpu_write", reg, NoIns, 0, IF w.ok THEN "Ok" ELSE "panic",
                           0, "-", a, v)
    /\ trace' = <<>>
    /\ prev' = LastKind(prev, trace)
    /\ budget' = budget - 1
    /\ UNCHANGED <<reg, nmi, ram, checked, wlog>>

\* mapper.cpu_read(a) on the NROM itself; last.v is the byte returned
NromRead(a) ==
    /\ ~fault
    /\ budget > 0
    /\ \E r \in {NromCpuRead(rom, a)} :
           /\ fault' = ~r.ok
           /\ last' = Call("cpu_read", reg, NoIns, 0, IF r.ok THEN "Ok" ELSE "panic",
                           0, "-", a, IF r.ok THEN r.v ELSE 0)
    /\ trace' = <<>>
    /\ prev' = LastKind(prev, trace)
    /\ budget' = budget - 1
    /\ UNCHANGED <<reg, nmi, ram, rom, checked, wlog>>

----------------------------------------------------------------------------
\* Spec: one instruction of every opcode byte, from a set-up machine

Org == \h0400
NromImage == <<1, 1, 0>>

Program(org, opc, b1, b2) == (org :> opc) @@ ((org + 1) :> b1) @@ ((org + 2) :> b2)

Data ==
    (\h0000 :> \h80) @@ (\h0001 :> \h03) @@ (\h0010 :> \hFF) @@ (\h0011 :> \h02)
    @@ (\h00FF :> \h40) @@ (\h0100 :> \h07) @@ (\h01FE :> \h33) @@ (\h01FF :> \h04)
    @@ (\h0200 :> \h05) @@ (\h02FF :> \h21) @@ (\h0300 :> \h06)

Regs(a, x, y, p, sp, pc) == [a |-> a, x |-> x, y |-> y, p |-> p, sp |-> sp, pc |-> pc]

OperandLo == {\h10, \hFF}
RegSamples == {<<\h50, 0, 0>>, <<\hFF, 1, 1>>}
PSamples == {\h24, \hE7}

Init ==
    \E opc \in Byte, b1 \in OperandLo, axy \in RegSamples, pf \in PSamples, chk \in BOOLEAN :
        Boot(Regs(axy[1], axy[2], axy[3], pf, \hFD, Org),
             Program(Org, opc, b1, \h02) @@ Data, NromImage, chk, MaxSteps)

Next == CpuInit \/ Execute

Spec == Init /\ [][Next]_vars

----------------------------------------------------------------------------
\* Reading the bus trace of the last call

Ticks(ev) == Len(SelectSeq(ev, LAMBDA e : e.k = "cycle"))
ReadsOf(ev) == SelectSeq(ev, LAMBDA e : e.k = "read")
WriteEvents(ev) == SelectSeq(ev, LAMBDA e : e.k = "write")

Executed == last.call = "execute" /\ last.result = "Ok"
ExecutedOp(op) == Executed /\ last.ins.op = op
FlagOf(p, bit) == (p \div bit) % 2 = 1

----------------------------------------------------------------------------
\* C1: in the trace of bus events every read and every write the CPU issues
\* is immediately preceded by a cycle(); none follows another read or write
\* or opens the trace.
C1_CycleBeforeAccess ==
    \A i \in 1..Len(trace) :
        trace[i].k \in {"read", "write"} =>
            IF i = 1 THEN prev = "cycle" ELSE trace[i - 1].k = "cycle"

\* a second call has run, its instruction both read and wrote the bus
C1_Witness ==
    /\ Executed
    /\ prev # "none"
    /\ WriteEvents(trace) # <<>>
    /\ Len(ReadsOf(trace)) >= 2

----------------------------------------------------------------------------
\* The 6502 cycle table, by operation class and addressing mode

ReadClass == {"Load", "Add", "Sub", "And", "Xor", "Or", "Compare", "Bits"}
RmwClass == {"Inc", "Dec", "Asl", "Lsr", "Rol", "Ror"}
LegalOps == ReadClass \cup RmwClass
            \cup {"Store", "Transfer", "Branch", "Jump", "Ret", "Flag", "Stack", "Break"}

LegalOpcode(c) == (Decode(c).op \in LegalOps /\ c # \hEB) \/ c = \hEA

\* the page-cross penalty of a load-class instruction, from its operands
PageCrossed(base, index) == ((base + index) % 65536) \div 256 # base \div 256

LoadPenalty(c) ==
    LET m == last.ins.m.k
        rd == ReadsOf(trace)
    IN  CASE m = "AbsoluteX" ->
               IF PageCrossed(rd[2].v + 256 * rd[3].v, last.pre.x) THEN 1 ELSE 0
          [] m = "AbsoluteY" ->
               IF PageCrossed(rd[2].v + 256 * rd[3].v, last.pre.y) THEN 1 ELSE 0
          [] m = "IndirectY" ->
               IF PageCrossed(rd[3].v + 256 * rd[4].v, last.pre.y) THEN 1 ELSE 0
          [] OTHER -> 0

BranchPenalty ==
    LET rd == ReadsOf(trace)
        pcn == (last.pre.pc + 2) % 65536
        target == (pcn + AsI8(rd[2].v) + 65536) % 65536
        taken == FlagOf(last.pre.p, FlagBit(last.ins.f)) = last.ins.b
    IN  IF ~taken THEN 0
        ELSE IF target \div 256 # pcn \div 256 THEN 2 ELSE 1

CycleTable ==
    LET op == last.ins.op
        m == last.ins.m.k
    IN  CASE op \in ReadClass ->
               (CASE m = "Immediate" -> 2
                  [] m = "ZeroPage" -> 3
                  [] m \in {"ZeroPageX", "ZeroPageY", "Absolute"} -> 4
                  [] m \in {"AbsoluteX", "AbsoluteY"} -> 4
                  [] m = "IndirectX" -> 6
                  [] m = "IndirectY" -> 5) + LoadPenalty(last.opcode)
          [] op = "Store" ->
               (CASE m = "ZeroPage" -> 3
                  [] m \in {"ZeroPageX", "ZeroPageY", "Absolute"} -> 4
                  [] m \in {"AbsoluteX", "AbsoluteY"} -> 5
                  [] m \in {"IndirectX", "IndirectY"} -> 6)
          [] op \in RmwClass /\ m # "None" /\ last.ins.r = "-" ->
               (CASE m = "ZeroPage" -> 5
                  [] m \in {"ZeroPageX", "Absolute"} -> 6
                  [] m = "AbsoluteX" -> 7)
          [] op = "Stack" -> IF last.ins.b THEN 3 ELSE 4
          [] op = "Jump" ->
               (CASE m = "None" -> 6 [] m = "Absolute" -> 3 [] m = "Indirect" -> 5)
          [] op = "Ret" -> 6
          [] op = "Break" -> 7
          [] op = "Branch" -> 2 + BranchPenalty
          [] OTHER -> 2

\* C2: for every legal opcode in every addressing mode, the cycle() ticks of
\* one execute() equal the 6502 cycle table entry, plus 1 on a page cross for
\* the load variants and for taken branches.
C2_TicksMatchCycleTable ==
    (Executed /\ LegalOpcode(last.opcode)) => Ticks(trace) = CycleTable

----------------------------------------------------------------------------
\* SpecAlu: ADC #m and SBC #m from every accumulator and carry, over operands
\* at the edges of the signed and unsigned ranges

AluOpcodes == {\h69, \hE9}
AluFlags == {\h24, \h25}
AluOperands ==
    {\h00, \h01, \h0F, \h10, \h3F, \h40, \h50, \h7F,
     \h80, \h81, \h90, \hB0, \hD0, \hF0, \hFE, \hFF}

InitAlu ==
    \E opc \in AluOpcodes, a \in Byte, m \in AluOperands, pf \in AluFlags :
        Boot(Regs(a, 0, 0, pf, \hFD, Org), Program(Org, opc, m, 0), NromImage, FALSE, 1)

SpecAlu == InitAlu /\ [][Execute]_vars

\* the operand byte of the last instruction (the second byte it fetched)
Operand == ReadsOf(trace)[2].v

AluLaw(a, m, c) ==
    LET r == a + m + c
    IN  /\ reg.a = r % 256
        /\ FlagOf(reg.p, CARRY) = (r > \hFF)
        /\ FlagOf(reg.p, OVERFLOW) =
               (BitAnd(BitAnd(Not8(BitXor(a, m)), BitXor(a, r)), \h80) # 0)

\* C3: for all 8-bit a, m and both carries, ADC leaves A = (a + m + c) mod
\* 256, C iff a + m + c > 0xFF, V iff (~(a^m) & (a^r) & 0x80) != 0; SBC obeys
\* the same law with m ^ 0xFF for m; and the two worked corners of the spec.
C3_AdcSbcLaw ==
    LET a == last.pre.a
        c == IF FlagOf(last.pre.p, CARRY) THEN 1 ELSE 0
    IN  /\ ExecutedOp("Add") => AluLaw(a, Operand, c)
        /\ ExecutedOp("Sub") => AluLaw(a, BitXor(Operand, \hFF), c)
        /\ (ExecutedOp("Add") /\ a = \h50 /\ Operand = \h50 /\ c = 0) =>
               (reg.a = \hA0 /\ FlagOf(reg.p, NEGATIVE) /\ FlagOf(reg.p, OVERFLOW)
                /\ ~FlagOf(reg.p, CARRY) /\ ~FlagOf(reg.p, ZERO))
        /\ (ExecutedOp("Add") /\ a = \hD0 /\ Operand = \h90 /\ c = 0) =>
               (reg.a = \h60 /\ ~FlagOf(reg.p, NEGATIVE) /\ FlagOf(reg.p, OVERFLOW)
                /\ FlagOf(reg.p, CARRY))

\* SBC has run with a borrow out and a signed overflow
C3_Witness ==
    /\ ExecutedOp("Sub")
    /\ last.pre.a = \h80 /\ Operand = \h01
    /\ FlagOf(last.pre.p, CARRY)
    /\ reg.a = \h7F /\ FlagOf(reg.p, OVERFLOW) /\ FlagOf(reg.p, CARRY)

----------------------------------------------------------------------------
\* SpecP: PLP and RTI over every stack byte, and c.reg.write(P, v)

OneCall == 1

PullOpcodes == {\h28, \h40}
PWriteSamples ==
    {\h00, \h01, \h04, \h08, \h10, \h20, \h24, \h30, \h34, \h3F,
     \h40, \h80, \hC3, \hCF, \hEF, \hFF}

InitP ==
    \E opc \in PullOpcodes, v \in Byte :
        Boot(Regs(0, 0, 0, \h24, \hFC, Org),
             Program(Org, opc, 0, 0) @@ (\h01FD :> v) @@ (\h01FE :> \h34) @@ (\h01FF :> \h12),
             NromImage, FALSE, OneCall)

WriteP == \E v \in PWriteSamples : RegApiWrite("p", v)

NextP == Execute \/ WriteP

SpecP == InitP /\ [][NextP]_vars

\* v with bits 5 and 4 replaced by 1 and 0
MaskedP(v) == (v \div 64) * 64 + 32 + (v % 16)

\* C4: after P is written with v through Registers::write(P, v), or restored
\* from a stack byte v by PLP or by RTI, reading P back yields
\* (v & 0xCF) | 0x20.
C4_PMasking ==
    /\ (last.call = "reg.write" /\ last.r = "p") => RegRead(reg, "p") = MaskedP(last.v)
    /\ (ExecutedOp("Stack") /\ last.ins.r = "p" /\ ~last.ins.b) =>
           RegRead(reg, "p") = MaskedP(ReadsOf(trace)[2].v)
    /\ (ExecutedOp("Ret") /\ ~last.ins.b) =>
           RegRead(reg, "p") = MaskedP(ReadsOf(trace)[2].v)

\* RTI has pulled a byte with B set and bit 5 clear
C4_Witness ==
    /\ ExecutedOp("Ret") /\ ~last.ins.b
    /\ ReadsOf(trace)[2].v = \hDF
    /\ reg.p = \hEF
    /\ reg.pc = \h1234

----------------------------------------------------------------------------
\* SpecPush: PHP and BRK from every value P can hold (bit 4 is never set in
\* the register; bit 5 is clear until init or a write to P sets it)

PushOpcodes == {\h08, \h00}
PValues == {p \in Byte : (p \div 16) % 2 = 0}
PushSps == {\hFD, \h01}

InitPush ==
    \E opc \in PushOpcodes, pf \in PValues, sp \in PushSps :
        Boot(Regs(0, 0, 0, pf, sp, Org), Program(Org, opc, 0, 0), NromImage, FALSE, OneCall)

SpecPush == InitPush /\ [][Execute]_vars

\* p with bit 4 set, p with bit 2 set
WithB(p) == IF (p \div 16) % 2 = 1 THEN p ELSE p + 16
WithI(p) == IF (p \div 4) % 2 = 1 THEN p ELSE p + 4

\* C5: PHP and BRK write the byte P | 0x10 to the stack; the P register does
\* not acquire bit 4, PHP leaves P unchanged, BRK changes P only by setting I.
C5_PushedPHasB ==
    /\ (ExecutedOp("Stack") /\ last.ins.r = "p" /\ last.ins.b) =>
           /\ Len(WriteEvents(trace)) = 1
           /\ WriteEvents(trace)[1].v = WithB(last.pre.p)
           /\ reg.p = last.pre.p
    /\ ExecutedOp("Break") =>
           /\ Len(WriteEvents(trace)) = 3
           /\ WriteEvents(trace)[3].v = WithB(last.pre.p)
           /\ reg.p = WithI(last.pre.p)
    /\ (reg.p \div 16) % 2 = 0

\* BRK has pushed P with B set from a P with I clear, across the stack wrap
C5_Witness ==
    /\ ExecutedOp("Break")
    /\ last.pre.p = \hA3 /\ last.pre.sp = \h01
    /\ WriteEvents(trace)[3].a = \h01FF
    /\ WriteEvents(trace)[3].v = \hB3
    /\ reg.p = \hA7

----------------------------------------------------------------------------
\* SpecStack: a loop of one one-byte push (PHA or PHP) and a JMP back to it,
\* run long enough to go round the stack page

MaxPushes == 256

PushRunOpcodes == {\h48, \h08}
StartSps == {\h00, \h01, \h7F, \hFD, \hFF}
PushOrg == \h0200

InitStack ==
    \E opc \in PushRunOpcodes, sp \in StartSps :
        Boot(Regs(\hAA, 0, 0, \h24, sp, PushOrg),
             Program(PushOrg, opc, \h4C, \h00) @@ ((PushOrg + 3) :> \h02),
             NromImage, FALSE, 2 * MaxPushes)

SpecStack == InitStack /\ [][Execute]_vars

StackPage == \h0100..\h01FF

\* C6: from any starting SP, 256 consecutive one-byte pushes write each
\* address of 0x0100..0x01FF exactly once (each writes at 0x0100 | SP, then
\* decrements SP modulo 256) and leave SP at its starting value; no push
\* writes outside 0x0100..0x01FF.
C6_StackWrap ==
    /\ \A i \in 1..Len(wlog) : wlog[i] \in StackPage
    /\ (ExecutedOp("Stack") /\ last.ins.b) =>
           /\ Len(WriteEvents(trace)) = 1
           /\ WriteEvents(trace)[1].a = \h0100 + last.pre.sp
           /\ reg.sp = (last.pre.sp + 255) % 256
    /\ Len(wlog) = 256 =>
           /\ reg.sp = wlog[1] - \h0100
           /\ {wlog[i] : i \in 1..256} = StackPage

\* 256 pushes have run from SP = 0x7F, the last one at 0x0180
C6_Witness ==
    /\ Len(wlog) = 256
    /\ wlog[1] = \h017F
    /\ wlog[256] = \h0180
    /\ reg.sp = \h7F
    /\ ExecutedOp("Stack")

----------------------------------------------------------------------------
\* SpecJmp: JMP (ptr) over pointers at, next to and away from a page end, in
\* RAM and in ROM

JmpPointerLo == {\h00, \h01, \h02, \h7F, \h80, \hFD, \hFE, \hFF}
JmpPointerHi == {\h02, \h03, \h80, \hFF}

JmpData ==
    (\h0200 :> \h11) @@ (\h0201 :> \h12) @@ (\h0202 :> \h13) @@ (\h02FE :> \h14)
    @@ (\h02FF :> \h15) @@ (\h0300 :> \h16) @@ (\h0301 :> \h17) @@ (\h0302 :> \h18)
    @@ (\h03FE :> \h19) @@ (\h03FF :> \h1A)

InitJmp ==
    \E lo \in JmpPointerLo, hi \in JmpPointerHi, chk \in BOOLEAN :
        Boot(Regs(0, 0, 0, \h24, \hFD, Org),
             Program(Org, \h6C, lo, hi) @@ JmpData, NromImage, chk, OneCall)

SpecJmp == InitJmp /\ [][Execute]_vars

\* C7: for JMP (indirect) whose pointer has low byte 0xFF, the new PC's low
\* byte is read from $xxFF and its high byte from $xx00 of the same page,
\* never from $(xx+1)00; for every other pointer the high byte is read from
\* pointer + 1.
C7_IndirectJmpWrap ==
    (ExecutedOp("Jump") /\ last.ins.m.k = "Indirect") =>
        LET rd == ReadsOf(trace)
            ptr == rd[2].v + 256 * rd[3].v
        IN  /\ Len(rd) = 5
            /\ rd[4].a = ptr
            /\ rd[5].a = IF ptr % 256 = 255 THEN ptr - 255 ELSE ptr + 1
            /\ (ptr % 256 = 255) => rd[5].a # (ptr + 1) % 65536
            /\ reg.pc = rd[4].v + 256 * rd[5].v

\* JMP ($03FF) has taken its high byte from $0300, where $0400 holds another
C7_Witness ==
    /\ ExecutedOp("Jump") /\ last.ins.m.k = "Indirect"
    /\ ReadsOf(trace)[4].a = \h03FF
    /\ ReadsOf(trace)[5].a = \h0300
    /\ reg.pc = \h161A
    /\ MmuRead(ram, rom, \h0400).v = \h6C

----------------------------------------------------------------------------
\* SpecIz: (zp,X) and (zp),Y loads and stores over every operand byte

IzOpcodes == {\hA1, \hB1, \h81, \h91}
IzRegs == {<<0, 0>>, <<1, 1>>, <<\h80, \h7F>>, <<\hFF, \hFF>>}

IzData ==
    (\h0000 :> \h03) @@ (\h0001 :> \h05) @@ (\h007F :> \h21) @@ (\h0080 :> \h06)
    @@ (\h00FE :> \h22) @@ (\h00FF :> \h23) @@ (\h0100 :> \h07) @@ (\h0101 :> \h24)

InitIz ==
    \E opc \in IzOpcodes, imm \in Byte, xy \in IzRegs :
        Boot(Regs(\h5A, xy[1], xy[2], \h24, \hFD, Org),
             Program(Org, opc, imm, 0) @@ IzData, NromImage, FALSE, OneCall)

SpecIz == InitIz /\ [][Execute]_vars

\* C8: in IndirectX mode whenever (imm + X) mod 256 = 0xFF, and in IndirectY
\* mode whenever imm = 0xFF, the pointer's low byte is read from $00FF and
\* its high byte from $0000; the pointer fetch never reads $0100.
C8_ZeroPagePointerWrap ==
    (Executed /\ last.ins.m.k \in {"IndirectX", "IndirectY"}) =>
        LET rd == ReadsOf(trace)
            imm == rd[2].v
            zero == IF last.ins.m.k = "IndirectX" THEN (imm + last.pre.x) % 256 ELSE imm
        IN  /\ zero = \hFF => (rd[3].a = \h00FF /\ rd[4].a = \h0000)
            /\ rd[3].a # \h0100
            /\ rd[4].a # \h0100

\* LDA ($7F,X) with X = 0x80 has fetched its pointer from $00FF and $0000
C8_Witness ==
    /\ ExecutedOp("Load") /\ last.ins.m.k = "IndirectX"
    /\ ReadsOf(trace)[2].v = \h7F /\ last.pre.x = \h80
    /\ ReadsOf(trace)[3].a = \h00FF /\ ReadsOf(trace)[4].a = \h0000
    /\ ReadsOf(trace)[5].a = \h0323

----------------------------------------------------------------------------
\* SpecNrom: an NROM built from a well-formed image, then cpu_write and
\* cpu_read calls at the edges of its three windows

MaxWrites == 2

PrgCounts == {1, 2}
ChrCounts == {0, 1}
RamCounts == {0, 1, 8}
NromAddrs == {\h6000, \h7FFF, \h8000, \hBFFF, \hC000, \hFFFF}
NromValues == {\hA5}

InitNrom ==
    \E n \in PrgCounts, m \in ChrCounts, r \in RamCounts, chk \in BOOLEAN :
        Boot(RegistersNew, <<>>, <<n, m, r>>, chk, MaxWrites)

NextNrom ==
    \/ \E a \in NromAddrs, v \in NromValues : NromWrite(a, v)
    \/ \E a \in NromAddrs : NromRead(a)

SpecNrom == InitNrom /\ [][NextNrom]_vars

\* C9: for a 1-PRG image, after any sequence of cpu_write calls (writes into
\* the ROM windows included), cpu_read(0xC000 + k) = cpu_read(0x8000 + k) for
\* all k in 0..0x3FFF.
C9_SinglePageMirror ==
    (rom.prg_num = 1 /\ ~fault) =>
        \A k \in 0..\h3FFF :
            NromCpuRead(rom, \hC000 + k) = NromCpuRead(rom, \h8000 + k)

\* a 1-PRG mapper has taken a write at 0xFFFF, which 0xBFFF now returns
C9_Witness ==
    /\ rom.prg_num = 1 /\ ~fault
    /\ last.call = "cpu_write" /\ last.a = \hFFFF /\ last.result = "Ok"
    /\ NromCpuRead(rom, \hBFFF) = [ok |-> TRUE, v |-> \hA5]
    /\ ImageByte(16 + \h3FFF) # \hA5

\* The reference mapping of a window address onto the image: the byte the
\* unmodified image gives at CPU address a
Unmodified == rom.prg_rom = <<>> /\ rom.prg_ram = <<>>

ReferenceByte(n, a) ==
    CASE a >= \h6000 /\ a <= \h7FFF -> 0
      [] a >= \h8000 /\ a <= \hBFFF -> ImageByte(16 + (a - \h8000))
      [] a >= \hC000 /\ n = 2 -> ImageByte(16 + \h4000 + (a - \hC000))
      [] OTHER -> ImageByte(16 + (a - \hC000))

\* C10: on an unmodified image cpu_read(a) returns the reference mapping's
\* byte for every a in the three windows (zero-filled prg_ram[a - 0x6000],
\* PRG byte a - 0x8000, PRG byte 0x4000 + (a - 0xC000) when prg_num = 2 and
\* a - 0xC000 otherwise); a cpu_write in 0x6000..0x7FFF is read back at the
\* same address; no access in these ranges indexes outside its buffer.
C10_ReferenceMapping ==
    /\ (last.call \in {"cpu_read", "cpu_write"} /\ last.a >= \h6000) =>
           last.result = "Ok"
    /\ (~fault /\ Unmodified) =>
           \A a \in \h6000..\hFFFF :
               NromCpuRead(rom, a) = [ok |-> TRUE, v |-> ReferenceByte(rom.prg_num, a)]
    /\ (~fault /\ last.call = "cpu_write" /\ last.a \in \h6000..\h7FFF) =>
           NromCpuRead(rom, last.a) = [ok |-> TRUE, v |-> last.v]

----------------------------------------------------------------------------
\* SpecReset: CPU::new over an image whose reset vector has been set, then
\* c.init()

VectorBytes == {\h00, \h01, \h34, \h7F, \h80, \hC0, \hFE, \hFF}

InitReset ==
    \E lo \in VectorBytes, hi \in VectorBytes, n \in PrgCounts, chk \in BOOLEAN :
        Boot(RegistersNew, (RESET_VECTOR :> lo) @@ ((RESET_VECTOR + 1) :> hi),
             <<n, 1, 0>>, chk, OneCall)

SpecReset == InitReset /\ [][CpuInit]_vars

\* C11: after init on a freshly constructed CPU, PC is the little-endian word
\* of bus bytes 0xFFFC (low) and 0xFFFD (high), SP = 0xFD, P = 0x24 and
\* A = X = Y = 0; init performs exactly those two bus reads and no writes.
C11_InitFromResetVector ==
    (last.call = "init" /\ last.pre = RegistersNew) =>
        /\ last.result = "Ok"
        /\ reg.pc = MmuRead(ram, rom, \hFFFC).v + 256 * MmuRead(ram, rom, \hFFFD).v
        /\ reg.sp = \hFD
        /\ reg.p = \h24
        /\ reg.a = 0 /\ reg.x = 0 /\ reg.y = 0
        /\ Len(ReadsOf(trace)) = 2
        /\ ReadsOf(trace)[1].a = \hFFFC
        /\ ReadsOf(trace)[2].a = \hFFFD
        /\ WriteEvents(trace) = <<>>

\* init has loaded PC = 0xC034 from a vector holding 0x34, 0xC0
C11_Witness ==
    /\ last.call = "init" /\ last.pre = RegistersNew
    /\ ReadsOf(trace)[1].v = \h34 /\ ReadsOf(trace)[2].v = \hC0
    /\ reg.pc = \hC034
    /\ reg.p = \h24

----------------------------------------------------------------------------
\* SpecBranch: one branch instruction of each kind, at the end of a page and
\* inside one, over offsets of both signs and both values of every flag

BranchOpcodes == {\h10, \h30, \h50, \h70, \h90, \hB0, \hD0, \hF0}
BranchOffsets == {\h00, \h02, \h7F, \h80, \hFA, \hFE}
BranchOrgs == {\h80FE, \h0400}

InitBranch ==
    \E opc \in BranchOpcodes, off \in BranchOffsets, org \in BranchOrgs,
       pf \in PSamples, chk \in BOOLEAN :
        Boot(Regs(0, 0, 0, pf, \hFD, org), Program(org, opc, off, 0),
             NromImage, chk, OneCall)

SpecBranch == InitBranch /\ [][Execute]_vars

\* BNE $02 fetched from 0x80FE
BneAtPageEnd ==
    /\ ExecutedOp("Branch")
    /\ last.opcode = \hD0
    /\ last.pre.pc = \h80FE
    /\ ReadsOf(trace)[2].v = \h02

\* C12 as stated: with PC = 0x80FE at BNE $02, a taken branch (Z clear)
\* leaves PC = 0x8102 and emits 4 ticks; not taken (Z set) emits 2 ticks and
\* leaves PC = 0x8100.
C12_BneFourTicks ==
    BneAtPageEnd =>
        IF FlagOf(last.pre.p, ZERO)
        THEN Ticks(trace) = 2 /\ reg.pc = \h8100
        ELSE Ticks(trace) = 4 /\ reg.pc = \h8102

\* C12 amended: the taken branch leaves PC = 0x8102 and emits 3 ticks (2 base
\* + 1 taken; 0x8100, the PC after the operand fetch, and 0x8102 are in the
\* same page); not taken emits 2 ticks and leaves PC = 0x8100.
C12_BneThreeTicks ==
    BneAtPageEnd =>
        IF FlagOf(last.pre.p, ZERO)
        THEN Ticks(trace) = 2 /\ reg.pc = \h8100
        ELSE Ticks(trace) = 3 /\ reg.pc = \h8102

\* BNE $02 at 0x80FE has been taken
C12_Witness ==
    /\ BneAtPageEnd
    /\ ~FlagOf(last.pre.p, ZERO)
    /\ reg.pc = \h8102
    /\ Ticks(trace) = 3

----------------------------------------------------------------------------
\* SpecJsr: JSR at p to a target holding an RTS, then that RTS, over
\* locations in RAM, in ROM and at the top of the address space

JsrOrgs == {\h0400, \h80FD, \hFFFD, \hFFFE, \hFFFF}
JsrTargets == {\h1234, \h0600, \h9000}
JsrSps == {\hFD, \h00, \h01, \hFF}

JsrProgram(p, target) ==
    (p :> \h20) @@ (((p + 1) % 65536) :> (target % 256))
    @@ (((p + 2) % 65536) :> (target \div 256)) @@ (target :> \h60)

InitJsr ==
    \E p \in JsrOrgs, target \in JsrTargets, sp \in JsrSps, chk \in BOOLEAN :
        Boot(Regs(0, 0, 0, \h24, sp, p), JsrProgram(p, target), NromImage, chk, MaxSteps)

SpecJsr == InitJsr /\ [][Execute]_vars

JsrFetched == last.call = "execute" /\ last.opcode = \h20
RtsFetched == last.call = "execute" /\ last.opcode = \h60

\* C13: for every JSR location p, every target and every starting SP, JSR
\* and then an RTS at the target leave PC = p + 3 and SP at its starting
\* value; JSR emits exactly 6 cycle ticks and RTS exactly 6.
C13_JsrRtsRoundTrip ==
    [][/\ JsrFetched' => (last'.result = "Ok" /\ Ticks(trace') = 6)
       /\ (JsrFetched /\ RtsFetched') =>
              /\ last'.result = "Ok"
              /\ Ticks(trace') = 6
              /\ reg'.pc = (last.pre.pc + 3) % 65536
              /\ reg'.sp = last.pre.sp]_vars

----------------------------------------------------------------------------
\* SpecRmw: INC zp and DEC zp over every old value of the target

RmwOpcodes == {\hE6, \hC6}
RmwTargets == {\h10, \h00, \h80, \hFF}

InitRmw ==
    \E opc \in RmwOpcodes, zp \in RmwTargets, old \in Byte, pf \in PSamples :
        Boot(Regs(0, 0, 0, pf, \hFD, Org), Program(Org, opc, zp, 0) @@ (zp :> old),
             NromImage, FALSE, OneCall)

SpecRmw == InitRmw /\ [][Execute]_vars

Kinds(ev) == [i \in 1..Len(ev) |-> ev[i].k]

\* C14: a memory INC or DEC in zero-page mode produces the bus events opcode
\* fetch, operand fetch, read of the target, one standalone tick, then a
\* single write of (old +/- 1) mod 256 to the same address: 5 ticks in all,
\* Z and N from the new value; INC $10 with $10 = 0xFF leaves $10 = 0x00,
\* Z set, N clear.
C14_ZeroPageRmwOrder ==
    (Executed /\ last.ins.op \in {"Inc", "Dec"} /\ last.ins.m.k = "ZeroPage") =>
        LET rd == ReadsOf(trace)
            wr == WriteEvents(trace)
            zp == rd[2].v
            old == rd[3].v
            new == IF last.ins.op = "Inc" THEN (old + 1) % 256 ELSE (old + 255) % 256
        IN  /\ Kinds(trace) = <<"cycle", "read", "cycle", "read", "cycle", "read",
                                "cycle", "cycle", "write">>
            /\ rd[1].a = last.pre.pc
            /\ rd[2].a = (last.pre.pc + 1) % 65536
            /\ rd[3].a = zp
            /\ wr = <<Ev("write", zp, new)>>
            /\ Ticks(trace) = 5
            /\ MmuRead(ram, rom, zp).v = new
            /\ FlagOf(reg.p, ZERO) = (new = 0)
            /\ FlagOf(reg.p, NEGATIVE) = (new >= 128)
            /\ (last.ins.op = "Inc" /\ zp = \h10 /\ old = \hFF) =>
                   (MmuRead(ram, rom, \h10).v = 0 /\ FlagOf(reg.p, ZERO)
                    /\ ~FlagOf(reg.p, NEGATIVE))

\* INC $10 has run on $10 = 0xFF, with Z clear and N set before it
C14_Witness ==
    /\ ExecutedOp("Inc") /\ last.ins.m.k = "ZeroPage"
    /\ ReadsOf(trace)[2].v = \h10 /\ ReadsOf(trace)[3].v = \hFF
    /\ ~FlagOf(last.pre.p, ZERO) /\ ram[\h10] = 0 /\ FlagOf(reg.p, ZERO)

----------------------------------------------------------------------------
\* SpecDecode: one execute() of every opcode byte, in RAM and at the top of
\* the address space

DecodeOrgs == {Org, \hFFFD, \hFFFE, \hFFFF}

InitDecode ==
    \E opc \in Byte, org \in DecodeOrgs, chk \in BOOLEAN :
        Boot(Regs(\h50, 1, 1, \h24, \hFD, org),
             (org :> opc) @@ (((org + 1) % 65536) :> \h10) @@ (((org + 2) % 65536) :> \h02)
             @@ Data, NromImage, chk, OneCall)

SpecDecode == InitDecode /\ [][Execute]_vars

Handled(c) == Decode(c).op # "BadOp"

\* C15: execute() returns an error if and only if the fetched opcode byte
\* decodes to no handled operation, and returns Ok for every opcode that
\* decodes to a handled one; the outcome is that of the call on the same CPU
\* and bus state.
C15_ErrIffUnhandled ==
    last.call = "execute" =>
        /\ (last.result = "Err") <=> ~Handled(last.opcode)
        /\ Handled(last.opcode) => last.result = "Ok"

\* C16: when execute() fails on an unrecognized opcode, the error value
\* carries the offending opcode byte, the byte read from the bus at the old
\* PC.
C16_ErrCarriesOpcode ==
    (last.call = "execute" /\ last.result = "Err") =>
        /\ last.opcode = MmuRead(ram, rom, last.pre.pc).v
        /\ last.err = last.opcode

----------------------------------------------------------------------------
\* SpecZn: one instruction of every opcode byte over register and operand
\* values that give zero, positive and negative results

ZnOperands == {\h00, \h10, \h80}
ZnAccs == {\h00, \h01, \h80, \hFF}
ZnIndexes == {\h00, \h01, \hFF}

InitZn ==
    \E opc \in Byte, b1 \in ZnOperands, a \in ZnAccs, xy \in ZnIndexes, pf \in PSamples :
        Boot(Regs(a, xy, xy, pf, \hFD, Org), Program(Org, opc, b1, \h02) @@ Data,
             NromImage, FALSE, OneCall)

SpecZn == InitZn /\ [][Execute]_vars

\* the register an instruction writes its result to, "-" if none of A, X, Y
DestReg(ins) ==
    CASE ins.op = "Load" -> ins.r
      [] ins.op = "Transfer" /\ ins.r2 # "sp" -> ins.r2
      [] ins.op = "Stack" /\ ~ins.b /\ ins.r = "a" -> "a"
      [] ins.op \in {"Inc", "Dec"} /\ ins.r # "-" -> ins.r
      [] ins.op \in {"Asl", "Lsr", "Rol", "Ror"} /\ ins.m = NoMode -> "a"
      [] ins.op \in {"And", "Or", "Xor", "Add", "Sub"} -> "a"
      [] OTHER -> "-"

\* the instruction is a read-modify-write of memory
IsRmw(ins) ==
    \/ ins.op \in {"Inc", "Dec"} /\ ins.r = "-"
    \/ ins.op \in {"Asl", "Lsr", "Rol", "Ror"} /\ ins.m # NoMode

ZnFrom(p, v) == FlagOf(p, ZERO) = (v = 0) /\ FlagOf(p, NEGATIVE) = (v >= 128)

\* C17: right after a legal instruction that writes v to A, X or Y, or
\* writes v to memory as a read-modify-write, Z = (v = 0) and N = bit 7 of
\* v; a write to SP (TXS) leaves Z and N unchanged.
C17_ZnFollowWrittenValue ==
    Executed =>
        /\ DestReg(last.ins) # "-" => ZnFrom(reg.p, reg[DestReg(last.ins)])
        /\ IsRmw(last.ins) =>
               /\ Len(WriteEvents(trace)) = 1
               /\ ZnFrom(reg.p, WriteEvents(trace)[1].v)
        /\ (last.ins.op = "Transfer" /\ last.ins.r2 = "sp") =>
               /\ reg.sp = last.pre.x
               /\ FlagOf(reg.p, ZERO) = FlagOf(last.pre.p, ZERO)
               /\ FlagOf(reg.p, NEGATIVE) = FlagOf(last.pre.p, NEGATIVE)

\* TAX has moved a zero into X with Z and N clear before it
C17_Witness ==
    /\ Executed /\ last.opcode = \hAA
    /\ last.pre.a = 0 /\ last.pre.x = \hFF /\ last.pre.p = \h24
    /\ reg.x = 0 /\ FlagOf(reg.p, ZERO) /\ ~FlagOf(reg.p, NEGATIVE)

----------------------------------------------------------------------------
\* SpecBrk: BRK at several addresses, stack pointers, P values and IRQ
\* vectors

BrkOrgs == {\h0400, \h01FB, \hFFFE, \hFFFF}
BrkSps == {\hFD, \h02, \h01, \h00}
BrkPs == {\h00, \h24, \hE7}
BrkVectorLo == {\h00, \h34, \hFF}
BrkVectorHi == {\h00, \h80, \hC0}

InitBrk ==
    \E p \in BrkOrgs, sp \in BrkSps, pf \in BrkPs, lo \in BrkVectorLo, hi \in BrkVectorHi,
       chk \in BOOLEAN :
        Boot(Regs(0, 0, 0, pf, sp, p),
             (p :> \h00) @@ (IRQ_VECTOR :> lo) @@ ((IRQ_VECTOR + 1) :> hi)
             @@ (NMI_VECTOR :> \h77) @@ ((NMI_VECTOR + 1) :> \h66),
             NromImage, chk, OneCall)

SpecBrk == InitBrk /\ [][Execute]_vars

\* the read and write events of ev, in order
BusAccesses(ev) == SelectSeq(ev, LAMBDA e : e.k # "cycle")

BrkFetched == last.call = "execute" /\ last.opcode = \h00

\* C18: BRK at address p pushes p + 2, high byte first, then pushes
\* P | 0x10, sets I, leaves SP three lower modulo 256 and, no NMI being
\* latched, loads PC from the word at 0xFFFE/0xFFFF; the bus events occur in
\* that order.
C18_BrkSequence ==
    (BrkFetched /\ ~nmi) =>
        LET p == last.pre.pc
            sp == last.pre.sp
            ret == (p + 2) % 65536
            lo == MmuRead(ram, rom, IRQ_VECTOR).v
            hi == MmuRead(ram, rom, IRQ_VECTOR + 1).v
        IN  /\ last.result = "Ok"
            /\ BusAccesses(trace) =
                   << Ev("read", p, \h00),
                      Ev("write", \h100 + sp, ret \div 256),
                      Ev("write", \h100 + ((sp + 255) % 256), ret % 256),
                      Ev("write", \h100 + ((sp + 254) % 256), BitOr(last.pre.p, \h10)),
                      Ev("read", IRQ_VECTOR, lo),
                      Ev("read", IRQ_VECTOR + 1, hi) >>
            /\ FlagOf(reg.p, INTERRUPT)
            /\ reg.sp = (sp + 253) % 256
            /\ reg.pc = lo + 256 * hi

\* BRK at 0x0400 with SP = 0x01 and P = 0x24 has run: the stack wrapped and
\* PC came from the IRQ vector
C18_Witness ==
    /\ BrkFetched /\ last.result = "Ok"
    /\ last.pre.pc = \h0400 /\ last.pre.sp = \h01 /\ last.pre.p = \h24
    /\ reg.sp = \hFE /\ reg.pc = \hC034
    /\ ram[\h0101] = \h04 /\ ram[\h0100] = \h02 /\ ram[\h01FF] = \h34

----------------------------------------------------------------------------
\* SpecRegs: the register file from construction, under its public
\* operations and CPU steps

\* c.reg.update_flag(f, on)
RegApiUpdateFlag(f, on) ==
    /\ ~fault
    /\ budget > 0
    /\ reg' = RegUpdateFlag(reg, f, on)
    /\ trace' = <<>>
    /\ prev' = LastKind(prev, trace)
    /\ last' = Call("reg.update_flag", reg, NoIns, 0, "Ok", 0, f, 0, IF on THEN 1 ELSE 0)
    /\ budget' = budget - 1
    /\ UNCHANGED <<nmi, ram, rom, checked, fault, wlog>>

\* c.reg.update_zn(v)
RegApiUpdateZn(v) ==
    /\ ~fault
    /\ budget > 0
    /\ reg' = RegUpdateZn(reg, v)
    /\ trace' = <<>>
    /\ prev' = LastKind(prev, trace)
    /\ last' = Call("reg.update_zn", reg, NoIns, 0, "Ok", 0, "-", 0, v)
    /\ budget' = budget - 1
    /\ UNCHANGED <<nmi, ram, rom, checked, fault, wlog>>

\* c.reg.update_cv(x, y, r)
RegApiUpdateCv(x, y, r) ==
    /\ ~fault
    /\ budget > 0
    /\ reg' = RegUpdateCv(reg, x, y, r)
    /\ trace' = <<>>
    /\ prev' = LastKind(prev, trace)
    /\ last' = Call("reg.update_cv", reg, NoIns, 0, "Ok", 0, "-", x, r)
    /\ budget' = budget - 1
    /\ UNCHANGED <<nmi, ram, rom, checked, fault, wlog>>

RegNames == {"a", "x", "y", "p", "sp"}
FlagNames == {"Interrupt", "Overflow", "Negative", "Decimal", "Carry", "Zero"}
RegValues == {\h00, \h20, \h80, \hDF, \hFF}
CvOperands == {\h00, \h7F, \h80}
CvSums == {\h000, \h0FF, \h100}
\* LDA #imm, SEC, CLV, PHP, PLP, BRK, ADC #imm, NOP
RegsOpcodes == {\hA9, \h38, \hB8, \h08, \h28, \h00, \h69, \hEA}

InitRegs ==
    \E opc \in RegsOpcodes :
        Boot(RegistersNew, Program(0, opc, \h80, 0) @@ (\h0100 :> \h00) @@ (\h0101 :> \hDF),
             NromImage, FALSE, MaxSteps)

WriteReg == \E r \in RegNames, v \in RegValues : RegApiWrite(r, v)
UpdateFlag == \E f \in FlagNames, on \in BOOLEAN : RegApiUpdateFlag(f, on)
UpdateZn == \E v \in RegValues : RegApiUpdateZn(v)
UpdateCv == \E x \in CvOperands, y \in CvOperands, r \in CvSums : RegApiUpdateCv(x, y, r)

NextRegs == WriteReg \/ UpdateFlag \/ UpdateZn \/ UpdateCv \/ Execute \/ CpuInit

SpecRegs == InitRegs /\ [][NextRegs]_vars

\* C19: bit 5 of P reads as 1 in every reachable state of the register file,
\* from construction onward and after any sequence of write, update_flag,
\* update_zn and update_cv calls and CPU instruction steps.
C19_Bit5AlwaysOne == FlagOf(RegRead(reg, "p"), ALWAYS_ONE)

----------------------------------------------------------------------------
\* SpecNmi: everything the outer system can do to a CPU: its public methods
\* and its public fields reg and bus

\* c.reg.write_pc(v)
RegApiWritePc(v) ==
    /\ ~fault
    /\ budget > 0
    /\ reg' = [reg EXCEPT !.pc = v]
    /\ trace' = <<>>
    /\ prev' = LastKind(prev, trace)
    /\ last' = Call("reg.write_pc", reg, NoIns, 0, "Ok", 0, "pc", 0, v)
    /\ budget' = budget - 1
    /\ UNCHANGED <<nmi, ram, rom, checked, fault, wlog>>

\* c.bus.write(a, v)
BusApiWrite(a, v) ==
    /\ ~fault
    /\ budget > 0
    /\ \E w \in {MmuWrite(ram, rom, a, v)} :
           /\ ram' = w.ram
           /\ rom' = w.rom
           /\ fault' = ~w.ok
           /\ last' = Call("bus.write", reg, NoIns, 0, IF w.ok THEN "Ok" ELSE "panic",
                           0, "-", a, v)
    /\ trace' = <<>>
    /\ prev' = LastKind(prev, trace)
    /\ budget' = budget - 1
    /\ UNCHANGED <<reg, nmi, checked, wlog>>

NmiPcs == {Org, NMI_VECTOR, IRQ_VECTOR}
NmiPokes == {NMI_VECTOR, NMI_VECTOR + 1, \h0000, \h4015}
NmiBytes == {\h00, \h01, \hFF}

InitNmi ==
    \E pf \in PSamples, chk \in BOOLEAN :
        Boot(Regs(0, 0, 0, pf, \hFD, Org),
             (Org :> \h00) @@ (IRQ_VECTOR :> \h34) @@ ((IRQ_VECTOR + 1) :> \hC0)
             @@ (NMI_VECTOR :> \h77) @@ ((NMI_VECTOR + 1) :> \h66),
             NromImage, chk, MaxSteps)

WritePc == \E v \in NmiPcs : RegApiWritePc(v)
BusPoke == \E a \in NmiPokes, v \in NmiBytes : BusApiWrite(a, v)

NextNmi == NextRegs \/ WritePc \/ BusPoke

SpecNmi == InitNmi /\ [][NextNmi]_vars

\* the last call was a BRK that read its vector at 0xFFFA/0xFFFB
BrkTookNmi ==
    /\ BrkFetched /\ last.result = "Ok"
    /\ Ev("read", NMI_VECTOR, MmuRead(ram, rom, NMI_VECTOR).v) \in
           {trace[i] : i \in 1..Len(trace)}
    /\ reg.pc = MmuRead(ram, rom, NMI_VECTOR).v + 256 * MmuRead(ram, rom, NMI_VECTOR + 1).v

\* C20: the core exposes an NMI latch that the outer system can set, and
\* once it is set the next BRK loads PC from the NMI vector word at
\* 0xFFFA/0xFFFB instead of the IRQ vector: whenever the outer system can
\* make a call, one of its calls sets the latch, and a BRK executed with the
\* latch set has taken the NMI vector.
C20_NmiLatchSettable ==
    /\ (~fault /\ budget > 0) => ENABLED (NextNmi /\ nmi')
    /\ (BrkFetched /\ nmi) => BrkTookNmi

----------------------------------------------------------------------------
\* C21 is checked under SpecBranch

\* the page of a 16-bit address
PageOf(a) == a \div 256

\* C21: for every branch instruction, PC and signed offset, a not-taken
\* branch emits no extra tick; a taken branch emits one extra tick, and a
\* second one if and only if ((PC + offset) & 0xFF00) # (PC & 0xFF00), PC
\* being the value after the operand fetch and offset sign-extended.
C21_BranchTicks ==
    ExecutedOp("Branch") =>
        LET pc == (last.pre.pc + 2) % 65536
            offset == AsI8(ReadsOf(trace)[2].v)
            target == (pc + offset + 65536) % 65536
            taken == RegCheckFlag(last.pre, last.ins.f) = last.ins.b
        IN  Ticks(trace) = 2 + (IF taken THEN 1 ELSE 0)
                             + (IF taken /\ PageOf(target) # PageOf(pc) THEN 1 ELSE 0)

----------------------------------------------------------------------------
\* SpecAbi: loads and stores in abs,X and abs,Y over bases and indexes on
\* both sides of a page boundary and of the end of the address space

\* LDA abs,X  LDA abs,Y  LDY abs,X  LDX abs,Y  STA abs,X  STA abs,Y
AbiOpcodes == {\hBD, \hB9, \hBC, \hBE, \h9D, \h99}
AbiBaseLo == {\h00, \h01, \h80, \hFF}
AbiBaseHi == {\h02, \h07, \hFF}
AbiIndexes == {\h00, \h01, \h7F, \h80, \hFF}

InitAbi ==
    \E opc \in AbiOpcodes, lo \in AbiBaseLo, hi \in AbiBaseHi, i \in AbiIndexes,
       chk \in BOOLEAN :
        Boot(Regs(\h5A, i, i, \h24, \hFD, Org), Program(Org, opc, lo, hi),
             NromImage, chk, OneCall)

SpecAbi == InitAbi /\ [][Execute]_vars

AbiExecuted == Executed /\ last.ins.m.k \in {"AbsoluteX", "AbsoluteY"}

\* C22: in AbsoluteX and AbsoluteY mode with operand base and index value i,
\* the resolved address is (base + i) mod 2^16, PC advances by 2, and a
\* standalone page-cross tick is emitted if and only if the mode's extra
\* flag is set and ((base + i) & 0xFF00) # (base & 0xFF00); with extra unset
\* no penalty tick is emitted.
C22_IndexedAbsolute ==
    AbiExecuted =>
        LET acc == BusAccesses(trace)
            base == acc[2].v + 256 * acc[3].v
            i == IF last.ins.m.k = "AbsoluteX" THEN last.pre.x ELSE last.pre.y
            addr == (base + i) % 65536
            cross == PageOf(addr) # PageOf(base)
            penalty == last.ins.m.extra /\ cross
        IN  /\ Len(acc) = 4
            /\ acc[4].a = addr
            /\ reg.pc = (last.pre.pc + 3) % 65536
            /\ Kinds(trace) =
                   <<"cycle", "read", "cycle", "read", "cycle", "read">>
                   \o (IF penalty THEN <<"cycle">> ELSE <<>>)
                   \o <<"cycle", acc[4].k>>
            /\ ~last.ins.m.extra => Ticks(trace) = 4

\* LDA $02FF,X with X = 1 has read 0x0300 after a page-cross tick
C22_Witness ==
    /\ AbiExecuted /\ last.opcode = \hBD /\ last.pre.x = 1
    /\ BusAccesses(trace)[4].a = \h0300
    /\ Ticks(trace) = 5

----------------------------------------------------------------------------
\* SpecIzy: reads in (zp),Y over pointers and Y values on both sides of a
\* page boundary and of the end of the address space

\* LDA (zp),Y  ORA (zp),Y  CMP (zp),Y  LAX (zp),Y
IzyOpcodes == {\hB1, \h11, \hD1, \hB3}
IzyOperand == \h10

InitIzy ==
    \E opc \in IzyOpcodes, lo \in AbiBaseLo, hi \in AbiBaseHi, y \in AbiIndexes,
       chk \in BOOLEAN :
        Boot(Regs(\h5A, 0, y, \h24, \hFD, Org),
             Program(Org, opc, IzyOperand, 0) @@ (IzyOperand :> lo) @@ ((IzyOperand + 1) :> hi),
             NromImage, chk, OneCall)

SpecIzy == InitIzy /\ [][Execute]_vars

\* the position in ev of its n-th read or write
AccessIndex(ev, n) ==
    CHOOSE j \in 1..Len(ev) :
        ev[j].k # "cycle" /\ Len(BusAccesses(SubSeq(ev, 1, j))) = n

IzyExecuted == Executed /\ last.ins.m.k = "IndirectY" /\ last.ins.m.extra

\* C23: in IndirectY mode with extra set, base being the pointer read from
\* zero page, the resolved address is (base + Y) mod 2^16 and the page-cross
\* tick is emitted if and only if ((base + Y) & 0xFF00) # (base & 0xFF00).
C23_IndirectYCross ==
    IzyExecuted =>
        LET acc == BusAccesses(trace)
            base == acc[3].v + 256 * acc[4].v
            addr == (base + last.pre.y) % 65536
            after == SubSeq(trace, AccessIndex(trace, 4) + 1, Len(trace))
        IN  /\ Len(acc) = 5
            /\ acc[5].a = addr
            /\ Ticks(after) = 1 + (IF PageOf(addr) # PageOf(base) THEN 1 ELSE 0)

----------------------------------------------------------------------------
\* SpecWrap: branches and absolute-operand instructions at the ends of the
\* address space and of the signed 16-bit range

\* BNE, BEQ, LDA abs, JMP abs
WrapOpcodes == {\hD0, \hF0, \hAD, \h4C}
WrapOrgs == {\h0400, \h7FFD, \h7FFE, \hFFFD, \hFFFE, \hFFFF}

WrapProgram(org, opc, b1) ==
    (org :> opc) @@ (((org + 1) % 65536) :> b1) @@ (((org + 2) % 65536) :> \h02)

InitWrap ==
    \E opc \in WrapOpcodes, org \in WrapOrgs, b1 \in BranchOffsets, pf \in PSamples,
       chk \in BOOLEAN :
        Boot(Regs(0, 0, 0, pf, \hFD, org), WrapProgram(org, opc, b1), NromImage, chk, OneCall)

SpecWrap == InitWrap /\ [][Execute]_vars

WrapFetched == last.call = "execute" /\ last.opcode \in WrapOpcodes

\* C24: PC arithmetic wraps modulo 2^16 and never fails: a taken branch sets
\* PC to (PC + offset) mod 2^16 for every PC and signed offset, and an
\* instruction whose opcode or operand bytes lie at 0xFFFF fetches the
\* following byte from 0x0000 and leaves PC reduced modulo 2^16, with no
\* overflow in the 16-bit intermediate values.
C24_PcWraps ==
    WrapFetched =>
        LET p == last.pre.pc
            rd == ReadsOf(trace)
            isBranch == last.ins.op = "Branch"
            pc == (p + 2) % 65536
            taken == isBranch /\ RegCheckFlag(last.pre, last.ins.f) = last.ins.b
        IN  /\ last.result = "Ok"
            /\ rd[1].a = p
            /\ rd[2].a = (p + 1) % 65536
            /\ isBranch =>
                   reg.pc = IF taken THEN (pc + AsI8(rd[2].v) + 65536) % 65536 ELSE pc
            /\ ~isBranch =>
                   /\ rd[3].a = (p + 2) % 65536
                   /\ reg.pc = IF last.ins.op = "Jump" THEN rd[2].v + 256 * rd[3].v
                               ELSE (p + 3) % 65536

----------------------------------------------------------------------------
\* SpecHeader: NROM::new over header counts up to the largest a byte holds

\* NROM::new(d) on an image with header bytes 4, 5, 8 = n, m, r that holds
\* exactly its body; last.a and last.v keep m and r
NromBuild(n, m, r) ==
    /\ ~fault
    /\ budget > 0
    /\ \E new \in {NromNew(n, m, r, 16 + n * PRG_ROM_PAGE_SIZE + m * CHR_ROM_PAGE_SIZE,
                           checked)} :
           /\ rom' = new
           /\ fault' = ~new.ok
           /\ last' = Call("NROM::new", reg, NoIns, 0, IF new.ok THEN "Ok" ELSE "panic",
                           0, "-", m, r)
    /\ trace' = <<>>
    /\ prev' = LastKind(prev, trace)
    /\ budget' = budget - 1
    /\ UNCHANGED <<reg, nmi, ram, checked, wlog>>

HeaderChrCounts == {0, 1, 2, 3, 4, 5, 6, 7, 8, 255}
HeaderRamCounts == {0, 1, 2, 7, 8, 255}

InitHeader == \E chk \in BOOLEAN : Boot(RegistersNew, <<>>, NromImage, chk, OneCall)

NextHeader ==
    \E n \in PrgCounts, m \in HeaderChrCounts, r \in HeaderRamCounts : NromBuild(n, m, r)

SpecHeader == InitHeader /\ [][NextHeader]_vars

\* C25: for every header with PRG count N in {1, 2}, any CHR count M and any
\* PRG-RAM count R over an image that holds its body, NROM::new yields
\* prg_rom = the 16384*N bytes from offset 16, chr_rom = the next 8192*M
\* bytes and a prg_ram of 8192*max(R, 1) zero bytes; the size and offset
\* computations do not overflow.
C25_HeaderSizes ==
    last.call = "NROM::new" =>
        LET n == rom.prg_num
            m == last.a
            r == last.v
        IN  /\ last.result = "Ok"
            /\ rom.prg_len = 16384 * n
            /\ rom.chr_off = 16 + 16384 * n
            /\ rom.chr_len = 8192 * m
            /\ rom.ram_len = 8192 * (IF r = 0 THEN 1 ELSE r)
            /\ PrgRomAt(rom, 16384 * n - 1) = [ok |-> TRUE, v |-> ImageByte(16 + 16384 * n - 1)]
            /\ PrgRamAt(rom, rom.ram_len - 1) = [ok |-> TRUE, v |-> 0]

----------------------------------------------------------------------------
\* SpecAtx: ATX #imm over accumulator and operand values

AtxValues == {\h00, \h01, \h0F, \h55, \h7F, \h80, \hAA, \hF0, \hFF}

InitAtx ==
    \E a \in AtxValues, m \in AtxValues, x \in {\h00, \hFF}, pf \in PSamples :
        Boot(Regs(a, x, 0, pf, \hFD, Org), Program(Org, \hAB, m, 0), NromImage, FALSE, OneCall)

SpecAtx == InitAtx /\ [][Execute]_vars

\* C26: ATX (LXA) with immediate operand m and prior accumulator a leaves
\* A = a & m and X = a & m, with Z and N set from that value.
C26_AtxAndsIntoAX ==
    ExecutedOp("Atx") =>
        LET v == BitAnd(last.pre.a, ReadsOf(trace)[2].v)
        IN  /\ reg.a = v
            /\ reg.x = v
            /\ ZnFrom(reg.p, v)

----------------------------------------------------------------------------
\* C27 is checked under SpecDecode

\* C27: when execute() returns an error for an unrecognized opcode, the only
\* effects of the step are PC advanced by one modulo 2^16 and one cycle()
\* followed by one read of the old PC on the bus: A, X, Y, SP, P and all
\* memory are unchanged and no write is issued.
C27_ErrFrame ==
    [][(last'.call = "execute" /\ last'.result = "Err") =>
           /\ reg' = [reg EXCEPT !.pc = (reg.pc + 1) % 65536]
           /\ ram' = ram
           /\ rom' = rom
           /\ trace' = <<Ev("cycle", 0, 0), Ev("read", reg.pc, MmuRead(ram, rom, reg.pc).v)>>
           /\ wlog' = wlog
           /\ ~fault']_vars

\* execute() has failed on the unmapped byte 0x02 fetched at 0xFFFF, and PC
\* has wrapped to 0x0000
C27_Witness ==
    /\ last.call = "execute" /\ last.result = "Err"
    /\ last.opcode = \h02 /\ last.pre.pc = \hFFFF
    /\ reg.pc = 0 /\ reg.a = \h50 /\ reg.sp = \hFD

=============================================================================
